---- MODULE Spec2Model ----
(***************************************************************************)
(* Model of the JobYaari agent pipeline: AICategorizer.categorize          *)
(* (src/agents/categorizer.py) and ContentGenerator.generate_content       *)
(* (src/agents/content_generator.py), with their retry loops, response     *)
(* cleaning, label validation, content parsing and deterministic           *)
(* fallbacks; GoogleSheetsManager.add_row and update_status                *)
(* (src/utils/sheets_manager.py); and the routes of src/app.py: the batch  *)
(* loop of run_ai_agent, update_status, get_trends and clear_data.  Spec   *)
(* runs one call of categorize or generate_content on its own, SpecRun one *)
(* POST /run-agent request, SpecStore the store under the add_row calls of *)
(* runs and the status, read and clear requests, SpecConcurrent two calls  *)
(* on the CSV file at the same time.  Texts are TLA+ strings handled       *)
(* character by character, the way the Python string methods handle them.  *)
(***************************************************************************)
EXTENDS Integers, Sequences, FiniteSets, TLC

(***************************************************************************)
(* Python string primitives                                                *)
(***************************************************************************)

UpperCaseLetters == "ABCDEFGHIJKLMNOPQRSTUVWXYZ"

LowerCaseLetters == "abcdefghijklmnopqrstuvwxyz"

\* one character of str.lower()
LowerChar(c) ==
    IF \E i \in 1..Len(UpperCaseLetters) : SubSeq(UpperCaseLetters, i, i) = c
    THEN LET i == CHOOSE k \in 1..Len(UpperCaseLetters) :
                      SubSeq(UpperCaseLetters, k, k) = c
         IN  SubSeq(LowerCaseLetters, i, i)
    ELSE c

\* one character of str.upper()
UpperChar(c) ==
    IF \E i \in 1..Len(LowerCaseLetters) : SubSeq(LowerCaseLetters, i, i) = c
    THEN LET i == CHOOSE k \in 1..Len(LowerCaseLetters) :
                      SubSeq(LowerCaseLetters, k, k) = c
         IN  SubSeq(UpperCaseLetters, i, i)
    ELSE c

RECURSIVE Lower(_)
\* str.lower()
Lower(s) ==
    IF s = "" THEN ""
    ELSE LowerChar(SubSeq(s, 1, 1)) \o Lower(SubSeq(s, 2, Len(s)))

RECURSIVE Upper(_)
\* str.upper()
Upper(s) ==
    IF s = "" THEN ""
    ELSE UpperChar(SubSeq(s, 1, 1)) \o Upper(SubSeq(s, 2, Len(s)))

\* Python's `sub in s`
Contains(s, sub) ==
    \E i \in 0..(Len(s) - Len(sub)) : SubSeq(s, i + 1, i + Len(sub)) = sub

\* str.startswith
StartsWith(s, prefix) ==
    /\ Len(s) >= Len(prefix)
    /\ SubSeq(s, 1, Len(prefix)) = prefix

\* str.find, 1-based; 0 when sub does not occur in s
Find(s, sub) ==
    IF Contains(s, sub)
    THEN 1 + CHOOSE i \in 0..(Len(s) - Len(sub)) :
                 /\ SubSeq(s, i + 1, i + Len(sub)) = sub
                 /\ \A j \in 0..(i - 1) : SubSeq(s, j + 1, j + Len(sub)) # sub
    ELSE 0

IsSpace(c) == c \in {" ", "\n", "\t", "\r"}

RECURSIVE LStrip(_)
LStrip(s) ==
    IF s # "" /\ IsSpace(SubSeq(s, 1, 1)) THEN LStrip(SubSeq(s, 2, Len(s))) ELSE s

RECURSIVE RStrip(_)
RStrip(s) ==
    IF s # "" /\ IsSpace(SubSeq(s, Len(s), Len(s)))
    THEN RStrip(SubSeq(s, 1, Len(s) - 1))
    ELSE s

\* str.strip()
Strip(s) == RStrip(LStrip(s))

RECURSIVE Replace(_, _, _)
\* str.replace(old, new) for a non-empty old: left to right, non-overlapping
Replace(s, old, new) ==
    LET i == Find(s, old)
    IN  IF i = 0 THEN s
        ELSE SubSeq(s, 1, i - 1) \o new
                 \o Replace(SubSeq(s, i + Len(old), Len(s)), old, new)

RECURSIVE SplitLines(_)
\* str.split('\n')
SplitLines(s) ==
    LET i == Find(s, "\n")
    IN  IF i = 0 THEN <<s>>
        ELSE <<SubSeq(s, 1, i - 1)>> \o SplitLines(SubSeq(s, i + 1, Len(s)))

ThinkOpen == "<think>"

ThinkClose == "</think>"

\* a cleaning that deletes the two markers and keeps the text between them
KeepThinkText(s) == Replace(Replace(s, ThinkOpen, ""), ThinkClose, "")

RECURSIVE RemoveThink(_)
\* re.sub(r'<think>.*?</think>', '', s, flags=re.DOTALL): every <think>
\* that has a </think> after it is removed up to the nearest such </think>
RemoveThink(s) ==
    LET i == Find(s, ThinkOpen)
        rest == SubSeq(s, i + Len(ThinkOpen), Len(s))
        j == Find(rest, ThinkClose)
    IN  IF i = 0 \/ j = 0 THEN s
        ELSE SubSeq(s, 1, i - 1)
                 \o RemoveThink(SubSeq(rest, j + Len(ThinkClose), Len(rest)))

(***************************************************************************)
(* AICategorizer                                                           *)
(***************************************************************************)

\* self.categories, in list order
categories == <<"Admit Card", "Job Notification", "Result", "Not Relevant">>

Labels == {categories[i] : i \in 1..Len(categories)}

admit_keywords == {"admit card", "hall ticket", "exam date", "download link"}

job_keywords ==
    {"recruitment", "notification", "vacancy", "hiring", "posts announced",
     "apply online"}

result_keywords ==
    {"result", "merit list", "selection list", "scorecard", "declared"}

job_orgs ==
    {"sbi", "upsc", "ssc", "rrb", "ibps", "lic", "aiims", "isro", "drdo",
     "army", "navy", "air force", "police", "railway", "bank"}

\* any(keyword in text for keyword in keywords)
AnyIn(keywords, text) == \E keyword \in keywords : Contains(text, keyword)

\* the same checks in the wrong order: result keywords before admit keywords
FallbackResultFirst(trend_text) ==
    LET trend_lower == Lower(trend_text)
    IN  IF AnyIn(result_keywords, trend_lower) THEN "Result"
        ELSE IF AnyIn(admit_keywords, trend_lower) THEN "Admit Card"
        ELSE IF AnyIn(job_keywords, trend_lower) THEN "Job Notification"
        ELSE IF AnyIn(job_orgs, trend_lower) THEN "Job Notification"
        ELSE "Not Relevant"

\* the same checks with the organization check first
FallbackOrgFirst(trend_text) ==
    LET trend_lower == Lower(trend_text)
    IN  IF AnyIn(job_orgs, trend_lower) THEN "Job Notification"
        ELSE IF AnyIn(admit_keywords, trend_lower) THEN "Admit Card"
        ELSE IF AnyIn(job_keywords, trend_lower) THEN "Job Notification"
        ELSE IF AnyIn(result_keywords, trend_lower) THEN "Result"
        ELSE "Not Relevant"

\* keyword fallback used when the API fails
_fallback_categorize(trend_text) ==
    LET trend_lower == Lower(trend_text)
    IN  IF AnyIn(admit_keywords, trend_lower) THEN "Admit Card"
        ELSE IF AnyIn(job_keywords, trend_lower) THEN "Job Notification"
        ELSE IF AnyIn(result_keywords, trend_lower) THEN "Result"
        ELSE IF AnyIn(job_orgs, trend_lower) THEN "Job Notification"
        ELSE "Not Relevant"

\* a cleaning that only removes the think block
CleanThinkOnly(response) == Strip(RemoveThink(response))

\* AICategorizer._clean_deepseek_response: the think block is removed, then
\* the first category (in list order) whose lower-cased name occurs in the
\* lower-cased response replaces the response
categorizer_clean_deepseek_response(response) ==
    LET cleaned == Strip(RemoveThink(response))
        hits == {i \in 1..Len(categories) :
                     Contains(Lower(cleaned), Lower(categories[i]))}
    IN  IF hits # {}
        THEN categories[CHOOSE i \in hits : \A k \in hits : i <= k]
        ELSE cleaned

\* a validation that keeps a response it cannot match
ValidateKeepsUnknown(category_in) ==
    LET category == Strip(category_in)
        category_lower == Lower(category)
    IN  IF Contains(category_lower, "admit") THEN "Admit Card"
        ELSE IF Contains(category_lower, "job") THEN "Job Notification"
        ELSE IF Contains(category_lower, "result") THEN "Result"
        ELSE category

\* the exact match, then the fuzzy match
_validate_category(category_in) ==
    LET category == Strip(category_in)
        category_lower == Lower(category)
    IN  IF category \in Labels THEN category
        ELSE IF Contains(category_lower, "admit")
                  \/ Contains(category_lower, "hall ticket")
             THEN "Admit Card"
        ELSE IF Contains(category_lower, "job")
                  \/ Contains(category_lower, "notification")
                  \/ Contains(category_lower, "vacancy")
                  \/ Contains(category_lower, "recruitment")
             THEN "Job Notification"
        ELSE IF Contains(category_lower, "result")
                  \/ Contains(category_lower, "merit")
             THEN "Result"
        ELSE "Not Relevant"

(***************************************************************************)
(* ContentGenerator                                                        *)
(***************************************************************************)

\* ContentGenerator._clean_deepseek_response
generator_clean_deepseek_response(response) == Strip(RemoveThink(response))

\* the keys of the content dict, in insertion order
section_keys == <<"instagram", "blog", "youtube", "thumbnail">>

\* the keys of the sections dict, in insertion order
section_headers ==
    <<"INSTAGRAM_POST:", "BLOG_DRAFT:", "YOUTUBE_SCRIPT:", "THUMBNAIL_IDEA:">>

EmptyContent == [instagram |-> "", blog |-> "", youtube |-> "", thumbnail |-> ""]

\* indexes of the headers that start the stripped line, compared in upper case
HeaderHits(line_stripped) ==
    {i \in 1..Len(section_headers) :
         StartsWith(Upper(line_stripped), Upper(section_headers[i]))}

\* a parser that keeps rule lines as content
NoSeparatorLines(line_stripped) == FALSE

IsSeparatorLine(line_stripped) ==
    \/ StartsWith(line_stripped, "---")
    \/ StartsWith(line_stripped, "===")
    \/ StartsWith(line_stripped, "***")

\* one iteration of the loop over the lines; st = [current_section, content],
\* current_section "" standing for None
ParseLine(st, line) ==
    LET line_stripped == Strip(line)
        hits == HeaderHits(line_stripped)
    IN  IF hits # {}
        THEN LET i == CHOOSE k \in hits : \A m \in hits : k <= m
                 key == section_keys[i]
                 content_after_header ==
                     Strip(SubSeq(line_stripped, Len(section_headers[i]) + 1,
                                  Len(line_stripped)))
             IN  [current_section |-> key,
                  content |-> IF content_after_header # ""
                              THEN [st.content EXCEPT ![key] = content_after_header]
                              ELSE st.content]
        ELSE IF st.current_section # "" /\ line_stripped # ""
                  /\ ~IsSeparatorLine(line_stripped)
             THEN [st EXCEPT !.content[st.current_section] =
                       IF @ # "" THEN @ \o " " \o line_stripped
                       ELSE line_stripped]
        ELSE st

RECURSIVE ParseLines(_, _, _)
ParseLines(st, lines, i) ==
    IF i > Len(lines) THEN st
    ELSE ParseLines(ParseLine(st, lines[i]), lines, i + 1)

RECURSIVE StripHeaders(_, _)
\* for header in sections.keys(): text = text.replace(header, '').strip()
StripHeaders(text, i) ==
    IF i > Len(section_headers) THEN text
    ELSE StripHeaders(Strip(Replace(text, section_headers[i], "")), i + 1)

\* the final clean-up of one section
CleanSection(text) == StripHeaders(Strip(text), 1)

parse_content(content_text) ==
    LET scanned == ParseLines([current_section |-> "", content |-> EmptyContent],
                              SplitLines(content_text), 1).content
    IN  [key \in DOMAIN scanned |-> CleanSection(scanned[key])]

\* any(parsed_content.values())
AnyValue(content) == \E key \in DOMAIN content : content[key] # ""

hashtags_map(category) ==
    CASE category = "Admit Card" ->
             "#AdmitCard #HallTicket #ExamUpdate #JobYaari #SarkariExam"
      [] category = "Job Notification" ->
             "#JobAlert #GovernmentJobs #Vacancy #Recruitment #JobYaari"
      [] category = "Result" ->
             "#Result #MeritList #ExamResult #JobYaari #SarkariResult"
      [] OTHER -> "#GovernmentJobs #JobUpdate #JobYaari"

link_map(category) ==
    CASE category = "Admit Card" -> "Download Admit Card: [Official Link]"
      [] category = "Job Notification" -> "Apply Online: [Official Link]"
      [] category = "Result" -> "Check Result: [Official Link]"
      [] OTHER -> "Visit: [Official Link]"

\* trend[:30]
Excerpt(trend) == SubSeq(trend, 1, IF Len(trend) < 30 THEN Len(trend) ELSE 30)

\* a fallback that only echoes the trend: empty for an empty trend
FallbackEchoOnly(trend, category) ==
    [instagram |-> trend, blog |-> trend, youtube |-> trend,
     thumbnail |-> Excerpt(trend)]

\* the templated bundle (the emoji of the templates are left out)
get_fallback_content(trend, category) ==
    LET hashtags == hashtags_map(category)
        link_text == link_map(category)
    IN  [instagram |->
             trend \o "\n\nImportant update for government job aspirants!\n"
                 \o link_text \o "\n\n" \o hashtags,
         blog |->
             "Latest Update: " \o trend
                 \o "\n\nThis is an important development for job seekers across India. "
                 \o category
                 \o " notifications are crucial for candidates preparing for government sector careers."
                 \o "\n\nKey Points:\n- Important update for aspirants"
                 \o "\n- Check official notification for eligibility criteria\n- "
                 \o link_text \o "\n- Don't miss important deadlines"
                 \o "\n\nStay updated with JobYaari for more government job notifications and exam updates!\n\n"
                 \o link_text,
         youtube |->
             "[OPENING - 0:00-0:05]\nBig breaking news for government job seekers!"
                 \o "\n\n[MAIN CONTENT - 0:05-0:25]\n" \o trend
                 \o "\n\nImportant Details:\n- Check eligibility criteria\n- "
                 \o link_text \o "\n- Note all important dates"
                 \o "\n\n[CALL TO ACTION - 0:25-0:30]\nLike, Share & Subscribe for daily job updates!"
                 \o "\nVisit JobYaari.com for complete details!",
         thumbnail |->
             "THUMBNAIL DESIGN:\n\nBackground: Bold YELLOW with RED accent border"
                 \o "\n\nMain Text (White, Bold, 72pt): \"" \o Upper(category)
                 \o "\"\nSubtitle (Black, 48pt): " \o Excerpt(trend) \o "..."
                 \o "\n\nVisual Elements:\n- Government building silhouette (bottom)"
                 \o "\n- Red \"NEW\" badge (top-right corner)"
                 \o "\n- Urgency indicator: Clock icon"
                 \o "\n- Professional, clean design for Indian audience"
                 \o "\n\nLayout: Center-aligned with strong contrast"]

(***************************************************************************)
(* The external completion service and the inputs                          *)
(***************************************************************************)

\* longest trend, in fragments, that the driver builds
MaxWords == 2

TrendFragments ==
    {"admit card", "HALL TICKET", "vacancy", "Result", "police", "iphone"}

RECURSIVE JoinWords(_)
\* " ".join(words)
JoinWords(words) ==
    IF words = <<>> THEN ""
    ELSE IF Len(words) = 1 THEN words[1]
    ELSE words[1] \o " " \o JoinWords(Tail(words))

WordSeqs == UNION {[1..n -> TrendFragments] : n \in 0..MaxWords}

SampleTrends ==
    {"SBI PO admit card 2025 release date", "UPSC recruitment 2025 notification",
     "SSC result 2025 declared", "iPhone 15 price drop"}

\* trend texts given to categorize
CatTrends == SampleTrends \cup {JoinWords(w) : w \in WordSeqs}

\* trend texts given to generate_content
GenTrends == {"", "SSC result 2025 declared", "UPSC recruitment 2025 notification"}

\* message.content values returned to categorize
\* texts the service may put between the reasoning markers
ThinkTexts == {"plan", "Admit Card\nINSTAGRAM_POST: hid"}

\* the response with the text between paired markers at the gap of the frame
WithThink(frame, text) ==
    frame.before \o ThinkOpen \o text \o ThinkClose \o frame.after

\* answers of the categorizer's prompt around a reasoning block
CatThinkFrames ==
    {[before |-> "", after |-> "\nResult"], [before |-> "Re", after |-> "sult"]}

\* answers of the generator's prompt around a reasoning block
GenThinkFrames == {[before |-> "INSTAGRAM_POST: Apply\n", after |-> "BLOG_DRAFT: Read"]}

CatResponses ==
    {WithThink(frame, text) : frame \in CatThinkFrames, text \in ThinkTexts} \cup
    {"Admit Card", "Job Notification", "Result", "Not Relevant",
     "  admit card\n",
     "<think>The user asks about a result</think>\nJob Notification",
     "<think>Result",
     "This is not relevant, it only mentions admit",
     "admit result",
     "hall ticket out",
     "new vacancy",
     "merit",
     "unknown",
     ""}

\* section texts a model may write under a header: one line, several lines,
\* padded lines, a rule between lines
SectionTexts ==
    <<"Apply now!", "All the details\nhere", "  Hook\n---\nCall to action ",
      "Yellow text">>

\* the texts of the four sections, in header order, moved round by k places
SectionTuple(k) ==
    [i \in 1..Len(section_headers) |->
         SectionTexts[((i + k - 1) % Len(SectionTexts)) + 1]]

SectionTuples == {SectionTuple(k) : k \in 0..(Len(SectionTexts) - 1)}

\* what follows a header's colon: the text on the same line or on the next
HeaderGaps == {" ", "\n"}

RECURSIVE FourSections(_, _, _)
\* the response holding header i, the gap and texts[i] for i, i + 1, ...
FourSections(texts, gap, i) ==
    IF i > Len(section_headers) THEN ""
    ELSE section_headers[i] \o gap \o texts[i]
             \o (IF i < Len(section_headers) THEN "\n" ELSE "")
             \o FourSections(texts, gap, i + 1)

FourSectionResponses ==
    {FourSections(texts, gap, 1) : texts \in SectionTuples, gap \in HeaderGaps}

\* message.content values returned to generate_content
GenResponses ==
    FourSectionResponses \cup
    {WithThink(frame, text) : frame \in GenThinkFrames, text \in ThinkTexts} \cup
    {"INSTAGRAM_POST: Apply now!\nBLOG_DRAFT:\nAll the details\nhere\n\nYOUTUBE_SCRIPT: Hook\n---\nTHUMBNAIL_IDEA: Yellow",
     "<think>plan</think>instagram_post: lower case header\nmore",
     "THUMBNAIL_IDEA: only thumb",
     "INSTAGRAM_POST: first\nINSTAGRAM_POST: second",
     "BLOG_DRAFT:\n--- intro\ntext",
     "INSTAGRAM_POST: a INSTAGRAM_BLOG_DRAFT:POST: b",
     "",
     "no headers here",
     "INSTAGRAM_POST: BLOG_DRAFT:",
     "<think>INSTAGRAM_POST: hidden</think>",
     "BLOG_DRAFT:\n---\n===\n***"}

\* str(e) of a rate-limit failure of the service
RateLimitMessages == {"Error code: 429 - Too Many Requests", "Rate limit exceeded"}

\* str(e) of any other failure of the service
OtherErrorMessages == {"Connection error.", "Error code: 500 - Internal Server Error"}

\* what one chat.completions.create call does: it returns a message whose
\* content is a text, returns a message whose content is None, or raises
Outcomes(responses) ==
    [kind : {"content"}, text : responses]
        \cup [kind : {"none"}, text : {""}]
        \cup [kind : {"raise"}, text : RateLimitMessages \cup OtherErrorMessages]

\* the service during a run: one answer set, one rate-limit failure, one
\* other failure
RunCatResponses == {"Job Notification", "Not Relevant"}

RunGenResponses ==
    {"INSTAGRAM_POST: Apply\nBLOG_DRAFT: Read\nYOUTUBE_SCRIPT: Hook\nTHUMBNAIL_IDEA: Bold"}

RunOutcomes(responses) ==
    [kind : {"content"}, text : responses]
        \cup [kind : {"raise"},
              text : {"Error code: 429 - Too Many Requests", "Connection error."}]

RECURSIVE Pow2(_)
\* 2 ** n
Pow2(n) == IF n = 0 THEN 1 ELSE 2 * Pow2(n - 1)

RECURSIVE Sum(_)
Sum(seq) == IF seq = <<>> THEN 0 ELSE Head(seq) + Sum(Tail(seq))

(***************************************************************************)
(* State                                                                   *)
(***************************************************************************)

VARIABLES
    pc,          \* "idle", "categorize", "generate" (inside the retry loop),
                 \* "cat_returned", "gen_returned", "cat_raised", "gen_raised"
                 \* (an exception left the function)
    trend_text,  \* the trend argument
    category,    \* the category argument of generate_content
    attempt,     \* the loop variable of the retry loop
    api_calls,   \* the outcomes of the external calls made by this invocation
    sleeps,      \* the time.sleep waits of this invocation, in order
    label,       \* the value returned by categorize
    content      \* the value returned by generate_content

\* the state of one call of categorize or generate_content
call_vars == <<pc, trend_text, category, attempt, api_calls, sleeps, label, content>>

VARIABLES
    run_pc,           \* position of run_ai_agent: "off" (no request), "start",
                      \* "loop", "classifying", "classified", "generating",
                      \* "done"
    components,       \* the module-level collaborators that are not None
    trends,           \* scraper.get_job_trends()
    idx,              \* the loop variable of the batch loop
    item_category,    \* the local variable category
    item_degraded,    \* every external call made for the current item failed
    processed_count,
    relevant_count,
    skipped_count,
    error_count,
    results,          \* the saved sheet_data, in order
    events,           \* the collaborator calls and sleeps of the run, in order
    response,         \* the JSON body and status code returned
    csv_rows,         \* the data rows of the CSV file
    google_sheet,     \* self.google_sheet is not None
    sheet_rows,       \* the data rows of the Google Sheet
    csv_calls         \* the calls of _add_to_csv and _update_status_csv in
                      \* progress in the threads of the server, each with
                      \* the df it has read

run_vars ==
    <<run_pc, components, trends, idx, item_category, item_degraded,
      processed_count, relevant_count, skipped_count, error_count, results,
      events, response, csv_rows, google_sheet, sheet_rows, csv_calls>>

vars == <<call_vars, run_vars>>

NoResponse ==
    [code |-> 0, success |-> FALSE, error |-> "",
     stats |-> [processed |-> 0, relevant |-> 0, skipped |-> 0, errors |-> 0,
                saved |-> 0, batch_size |-> 0],
     results |-> <<>>]

\* no call of categorize or generate_content is open
InitCall ==
    /\ pc = "idle"
    /\ trend_text = ""
    /\ category = ""
    /\ attempt = 0
    /\ api_calls = <<>>
    /\ sleeps = <<>>
    /\ label = ""
    /\ content = EmptyContent

\* the locals of run_ai_agent before the request
InitLocals ==
    /\ trends = <<>>
    /\ idx = 0
    /\ item_category = ""
    /\ item_degraded = FALSE
    /\ processed_count = 0
    /\ relevant_count = 0
    /\ skipped_count = 0
    /\ error_count = 0
    /\ results = <<>>
    /\ events = <<>>
    /\ response = NoResponse
    /\ csv_calls = <<>>

ComponentNames == {"scraper", "categorizer", "content_generator", "sheets_manager"}

\* categorize and generate_content called on their own, outside a run
Init ==
    /\ InitCall
    /\ InitLocals
    /\ run_pc = "off"
    /\ components = ComponentNames
    /\ csv_rows = <<>>
    /\ google_sheet = FALSE
    /\ sheet_rows = <<>>

\* the service as seen by a call on its own and by the calls of a run
cat_outcomes ==
    IF run_pc = "off" THEN Outcomes(CatResponses) ELSE RunOutcomes(RunCatResponses)

gen_outcomes ==
    IF run_pc = "off" THEN Outcomes(GenResponses) ELSE RunOutcomes(RunGenResponses)

(***************************************************************************)
(* AICategorizer.categorize                                                *)
(***************************************************************************)

cat_max_retries == 3

cat_base_delay == 2

\* the try block of categorize once the call has ended: the label it
\* returns, or the str(e) of the exception raised in it
categorize_try(outcome) ==
    CASE outcome.kind = "content" ->
             [ok |-> TRUE, error_str |-> "",
              value |-> _validate_category(
                            categorizer_clean_deepseek_response(Strip(outcome.text)))]
      [] outcome.kind = "none" ->
             \* None has no strip(): AttributeError
             [ok |-> FALSE, value |-> "",
              error_str |-> "'NoneType' object has no attribute 'strip'"]
      [] OTHER ->
             [ok |-> FALSE, value |-> "", error_str |-> outcome.text]

\* `except Exception as e` catches whatever the try block raises
categorize_catches(error_str) == TRUE

\* "429" in error_str or "rate" in error_str.lower()
categorize_is_rate_limit(error_str) ==
    Contains(error_str, "429") \/ Contains(Lower(error_str), "rate")

\* a handler that retries after any error
CatRetryAnyError(att, error_str) == att < cat_max_retries - 1

\* the handler sleeps and continues the loop
categorize_retries(att, error_str) ==
    categorize_is_rate_limit(error_str) /\ att < cat_max_retries - 1

\* a backoff that waits the base delay every time
CatFlatWait(att) == cat_base_delay

\* wait_time = base_delay * (2 ** attempt)
categorize_wait_time(att) == cat_base_delay * Pow2(att)

\* categorize(trend_text) is called
categorize(t) ==
    /\ pc = "idle"
    /\ pc' = "categorize"
    /\ trend_text' = t
    /\ attempt' = 0
    /\ UNCHANGED <<category, api_calls, sleeps, label, content>>

\* one iteration of `for attempt in range(max_retries)`, the external call
\* included; past the last iteration the function returns the fallback
categorize_attempt ==
    /\ pc = "categorize"
    /\ IF attempt >= cat_max_retries
       THEN /\ label' = _fallback_categorize(trend_text)
            /\ pc' = "cat_returned"
            /\ UNCHANGED <<attempt, api_calls, sleeps>>
       ELSE \E outcome \in cat_outcomes :
                LET r == categorize_try(outcome)
                IN  /\ api_calls' = Append(api_calls, outcome)
                    /\ IF r.ok
                       THEN /\ label' = r.value
                            /\ pc' = "cat_returned"
                            /\ UNCHANGED <<attempt, sleeps>>
                       ELSE IF ~categorize_catches(r.error_str)
                       THEN /\ pc' = "cat_raised"
                            /\ UNCHANGED <<attempt, sleeps, label>>
                       ELSE IF categorize_retries(attempt, r.error_str)
                       THEN /\ sleeps' = Append(sleeps, categorize_wait_time(attempt))
                            /\ attempt' = attempt + 1
                            /\ UNCHANGED <<pc, label>>
                       ELSE /\ label' = _fallback_categorize(trend_text)
                            /\ pc' = "cat_returned"
                            /\ UNCHANGED <<attempt, sleeps>>
    /\ UNCHANGED <<trend_text, category, content>>

(***************************************************************************)
(* ContentGenerator.generate_content                                       *)
(***************************************************************************)

gen_max_retries == 3

gen_base_delay == 2

\* a guard that forgets the empty trend
GenSkipsIrrelevantOnly(trend, cat) == cat = "Not Relevant"

\* `if not trend or category == "Not Relevant"`
generate_skips(trend, cat) == trend = "" \/ cat = "Not Relevant"

\* a validation that accepts every parsed bundle
NeverEmpty(parsed_content) == FALSE

\* `if not any(parsed_content.values())`
is_empty_content(parsed_content) == ~AnyValue(parsed_content)

\* the try block of generate_content once the call has ended, up to
\* parse_content: the parsed bundle, or the str(e) of the exception
generate_try(outcome) ==
    CASE outcome.kind = "content" ->
             [ok |-> TRUE, error_str |-> "",
              value |-> parse_content(generator_clean_deepseek_response(outcome.text))]
      [] outcome.kind = "none" ->
             \* re.sub on None: TypeError
             [ok |-> FALSE, value |-> EmptyContent,
              error_str |-> "expected string or bytes-like object, got 'NoneType'"]
      [] OTHER ->
             [ok |-> FALSE, value |-> EmptyContent, error_str |-> outcome.text]

\* `except Exception as e` catches whatever the try block raises
generate_catches(error_str) == TRUE

\* "429" in error_str or "rate" in error_str.lower()
generate_is_rate_limit(error_str) ==
    Contains(error_str, "429") \/ Contains(Lower(error_str), "rate")

\* a handler that never retries
GenNeverRetry(att, error_str) == FALSE

\* the handler sleeps and continues the loop
generate_retries(att, error_str) ==
    generate_is_rate_limit(error_str) /\ att < gen_max_retries - 1

\* wait_time = base_delay * (2 ** attempt)
generate_wait_time(att) == gen_base_delay * Pow2(att)

\* generate_content(trend, category) is called
generate_content(t, c) ==
    /\ pc = "idle"
    /\ trend_text' = t
    /\ category' = c
    /\ attempt' = 0
    /\ IF generate_skips(t, c)
       THEN /\ content' = get_fallback_content(t, c)
            /\ pc' = "gen_returned"
       ELSE /\ pc' = "generate"
            /\ UNCHANGED content
    /\ UNCHANGED <<api_calls, sleeps, label>>

\* one iteration of `for attempt in range(max_retries)`, the external call
\* included; past the last iteration the function returns the fallback
generate_attempt ==
    /\ pc = "generate"
    /\ IF attempt >= gen_max_retries
       THEN /\ content' = get_fallback_content(trend_text, category)
            /\ pc' = "gen_returned"
            /\ UNCHANGED <<attempt, api_calls, sleeps>>
       ELSE \E outcome \in gen_outcomes :
                LET r == generate_try(outcome)
                IN  /\ api_calls' = Append(api_calls, outcome)
                    /\ IF r.ok
                       THEN /\ content' = IF is_empty_content(r.value)
                                          THEN get_fallback_content(trend_text, category)
                                          ELSE r.value
                            /\ pc' = "gen_returned"
                            /\ UNCHANGED <<attempt, sleeps>>
                       ELSE IF ~generate_catches(r.error_str)
                       THEN /\ pc' = "gen_raised"
                            /\ UNCHANGED <<attempt, sleeps, content>>
                       ELSE IF generate_retries(attempt, r.error_str)
                       THEN /\ sleeps' = Append(sleeps, generate_wait_time(attempt))
                            /\ attempt' = attempt + 1
                            /\ UNCHANGED <<pc, content>>
                       ELSE /\ content' = get_fallback_content(trend_text, category)
                            /\ pc' = "gen_returned"
                            /\ UNCHANGED <<attempt, sleeps>>
    /\ UNCHANGED <<trend_text, category, label>>

(***************************************************************************)
(* GoogleTrendsScraper.get_job_trends                                      *)
(***************************************************************************)

\* texts made from the templates of _generate_sample_trends
JobTrend == "UPSC vacancy 2025 - 500 posts announced"

HiringTrend == "SBI hiring 2025 - 1000+ vacancies"

OtherTrend == "iPhone 15 price drop India"

\* a title that is a whole number (the title of a series, a year)
NumberTrend == "1923"

\* the first trends of a sample; random.choice may draw one text twice
SampleHeads ==
    {<<HiringTrend, OtherTrend, JobTrend>>, <<OtherTrend, JobTrend, JobTrend>>}

\* the other twelve trends of a sample of fifteen
SampleTail ==
    <<"RRB hall ticket 2025 download link active",
      "IBPS Clerk exam date 2025 announced",
      "LIC admit card 2025 - direct download link",
      "AIIMS Nurse admit card 2025 release date",
      "ISRO Scientist recruitment 2025 notification out",
      "DRDO Engineer recruitment 2025 apply online",
      "ONGC hiring 2025 - 1000+ vacancies",
      "Delhi Police Constable recruitment 2025 apply online",
      "NABARD vacancy 2025 - 2000 posts announced",
      "RBI Officer result 2025 declared",
      "SEBI exam result 2025 - check merit list",
      "Mumbai weather forecast today">>

\* what get_job_trends may return: a sample of fifteen; the shorter lists
\* are those of a source with fewer trends (min(15, len(sample_trends)))
ScrapedLists ==
    {head \o SampleTail : head \in SampleHeads}
        \cup {<<>>, <<JobTrend, OtherTrend>>}

(***************************************************************************)
(* GoogleSheetsManager.add_row                                             *)
(***************************************************************************)

\* the trend column of the rows
RowTrends(rows) == {rows[i].trend : i \in 1..Len(rows)}

\* what the file system or the Sheets API does to one request
IoOutcomes == {"ok", "error"}

\* a text that pd.read_csv parses as a whole number
IsNumberText(text) ==
    /\ text # ""
    /\ \A i \in 1..Len(text) :
           SubSeq(text, i, i) \in {"0", "1", "2", "3", "4", "5", "6", "7", "8", "9"}

\* pd.read_csv infers the type of a column from its cells: the trend column
\* is read as int64 when every cell is a whole number, as text otherwise
reads_as_numbers(rows) ==
    rows # <<>> /\ \A i \in DOMAIN rows : IsNumberText(rows[i].trend)

\* the texts of df['trend'] of the file read back: a text equals no cell of
\* a column read as numbers
trend_texts(rows) == IF reads_as_numbers(rows) THEN {} ELSE RowTrends(rows)

\* a write that replaces the stored row of the trend by the new one
AddOverwrites(rows, new_row, io) ==
    [success |-> TRUE,
     rows |-> IF new_row.trend \in RowTrends(rows)
              THEN [i \in DOMAIN rows |->
                      IF rows[i].trend = new_row.trend THEN new_row ELSE rows[i]]
              ELSE Append(rows, new_row)]

\* _add_to_csv: [success, rows]; io = "error" is read_csv, concat or to_csv
\* raising, which the method catches
_add_to_csv(rows, new_row, io) ==
    IF io = "error" THEN [success |-> FALSE, rows |-> rows]
    ELSE IF rows # <<>> /\ new_row.trend \in trend_texts(rows)
    THEN [success |-> FALSE, rows |-> rows]
    ELSE [success |-> TRUE, rows |-> Append(rows, new_row)]

\* _add_to_google_sheets: [success, rows]; column B starts with the header
\* cell "Trend"
_add_to_google_sheets(connected, rows, new_row, io) ==
    IF ~connected THEN [success |-> FALSE, rows |-> rows]
    ELSE IF io = "error" THEN [success |-> FALSE, rows |-> rows]
    ELSE IF new_row.trend \in ({"Trend"} \cup RowTrends(rows))
    THEN [success |-> FALSE, rows |-> rows]
    ELSE [success |-> TRUE, rows |-> Append(rows, new_row)]

\* the dict new_row of add_row: the time of the call and the fields of data
\* (str() of a text is the text)
new_row_of(data, now) ==
    [timestamp |-> now, trend |-> data.trend, category |-> data.category,
     instagram_post |-> data.instagram_post, blog_draft |-> data.blog_draft,
     youtube_script |-> data.youtube_script,
     thumbnail_idea |-> data.thumbnail_idea, status |-> data.status]

\* add_row(data) called at the time now: [success, csv_rows, sheet_rows]
add_row(csv, connected, sheet, data, now, csv_io, sheets_io) ==
    LET new_row == new_row_of(data, now)
        csv_result == _add_to_csv(csv, new_row, csv_io)
        sheets_result == _add_to_google_sheets(connected, sheet, new_row, sheets_io)
    IN  [success |-> csv_result.success \/ sheets_result.success,
         csv_rows |-> csv_result.rows,
         sheet_rows |-> sheets_result.rows]

(***************************************************************************)
(* GoogleSheetsManager.update_status                                       *)
(***************************************************************************)

\* the rows with the status of every row of the trend set to new_status
\* (df.loc[mask, 'status'] = new_status)
SetStatusAll(rows, trend, new_status) ==
    [i \in DOMAIN rows |->
        IF rows[i].trend = trend THEN [rows[i] EXCEPT !.status = new_status]
        ELSE rows[i]]

\* an update that writes back the matching rows only
UpdateKeepsMatching(rows, trend, new_status, io) ==
    [success |-> trend \in RowTrends(rows),
     rows |-> SetStatusAll(SelectSeq(rows, LAMBDA row : row.trend = trend),
                           trend, new_status)]

\* _update_status_csv: [success, rows]; io = "error" is read_csv or to_csv
\* raising, which the method catches
_update_status_csv(rows, trend, new_status, io) ==
    IF io = "error" THEN [success |-> FALSE, rows |-> rows]
    ELSE IF trend \notin trend_texts(rows) THEN [success |-> FALSE, rows |-> rows]
    ELSE [success |-> TRUE, rows |-> SetStatusAll(rows, trend, new_status)]

\* all_trends.index(trend) among the data rows: the first row of the trend,
\* 0 when the first match is the header cell "Trend" of column B
RECURSIVE FirstRowOf(_, _, _)
FirstRowOf(rows, trend, i) ==
    IF trend = "Trend" \/ i > Len(rows) THEN 0
    ELSE IF rows[i].trend = trend THEN i
    ELSE FirstRowOf(rows, trend, i + 1)

\* _update_status_sheets: [success, rows]; update_cell(row_index, 8, ...)
\* writes the status cell of the first match in column B, which is a cell of
\* the header row when the trend is "Trend"
_update_status_sheets(connected, rows, trend, new_status, io) ==
    IF ~connected THEN [success |-> FALSE, rows |-> rows]
    ELSE IF io = "error" THEN [success |-> FALSE, rows |-> rows]
    ELSE IF trend \notin ({"Trend"} \cup RowTrends(rows))
    THEN [success |-> FALSE, rows |-> rows]
    ELSE [success |-> TRUE,
          rows |-> [i \in DOMAIN rows |->
                      IF i = FirstRowOf(rows, trend, 1)
                      THEN [rows[i] EXCEPT !.status = new_status]
                      ELSE rows[i]]]

\* update_status(trend, new_status): [success, csv_rows, sheet_rows]
manager_update_status(csv, connected, sheet, trend, new_status, csv_io, sheets_io) ==
    LET csv_result == _update_status_csv(csv, trend, new_status, csv_io)
        sheets_result ==
            _update_status_sheets(connected, sheet, trend, new_status, sheets_io)
    IN  [success |-> csv_result.success \/ sheets_result.success,
         csv_rows |-> csv_result.rows,
         sheet_rows |-> sheets_result.rows]

(***************************************************************************)
(* GoogleSheetsManager.get_all_data                                        *)
(***************************************************************************)

sheet_record(row) ==
    ("Timestamp" :> row.timestamp) @@ ("Trend" :> row.trend)
        @@ ("Category" :> row.category)
        @@ ("Instagram Post" :> row.instagram_post)
        @@ ("Blog Draft" :> row.blog_draft)
        @@ ("YouTube Script" :> row.youtube_script)
        @@ ("Thumbnail Idea" :> row.thumbnail_idea)
        @@ ("Status" :> row.status)

\* get_all_data(): the records of the CSV file when the file exists, else
\* those of the connected sheet, else none; io = "error" is read_csv or
\* get_all_records raising, which the method catches
get_all_data(csv_exists, csv, connected, sheet, io) ==
    IF io = "error" THEN <<>>
    ELSE IF csv_exists THEN csv
    ELSE IF connected THEN [i \in DOMAIN sheet |-> sheet_record(sheet[i])]
    ELSE <<>>

(***************************************************************************)
(* run_ai_agent                                                            *)
(***************************************************************************)

BATCH_SIZE == 3

\* a run that takes the whole list
WholeList(all_trends) == all_trends

\* trends[:BATCH_SIZE]
trends_to_process(all_trends) ==
    SubSeq(all_trends, 1,
           IF Len(all_trends) < BATCH_SIZE THEN Len(all_trends) ELSE BATCH_SIZE)

\* a run that never sleeps
NeverDelays(i, batch) == FALSE

\* `if idx < len(trends_to_process)`, the guard of time.sleep(1)
item_delays(i, batch) == i < Len(batch)

\* a loop that never ends
NeverFinished(i, batch) == FALSE

\* the for loop is exhausted
batch_finished(i, batch) == i > Len(batch)

\* a run that generates for every label
AlwaysRelevant(cat) == TRUE

\* `if category != "Not Relevant"`
is_relevant(cat) == cat # "Not Relevant"

\* a run that reports every item as saved
AppendAlways(saved, data, success) == Append(saved, data)

\* a run that puts the newest record first
SavedFirst(saved, data, success) == IF success THEN <<data>> \o saved ELSE saved

\* `if sheets_manager.add_row(sheet_data): results.append(sheet_data)`
saved_results(saved, data, success) == IF success THEN Append(saved, data) ELSE saved

\* a record that is approved as soon as it is written
SheetDataApproved(trend, cat, bundle) ==
    [trend |-> trend, category |-> cat,
     instagram_post |-> bundle.instagram, blog_draft |-> bundle.blog,
     youtube_script |-> bundle.youtube, thumbnail_idea |-> bundle.thumbnail,
     status |-> "Approved"]

\* the sheet_data built from the trend, the label and the bundle
sheet_data(trend, cat, bundle) ==
    [trend |-> trend, category |-> cat,
     instagram_post |-> bundle.instagram, blog_draft |-> bundle.blog,
     youtube_script |-> bundle.youtube, thumbnail_idea |-> bundle.thumbnail,
     status |-> "Pending Review"]

\* every external call of the open call failed
CallsAllFailed == \A i \in 1..Len(api_calls) : api_calls[i].kind # "content"

\* the call of categorize or generate_content is over
ResetCall ==
    /\ pc' = "idle"
    /\ trend_text' = ""
    /\ category' = ""
    /\ attempt' = 0
    /\ api_calls' = <<>>
    /\ sleeps' = <<>>
    /\ label' = ""
    /\ content' = EmptyContent

\* the iteration is over: its local category is dead until the next
\* iteration assigns it
ItemOver ==
    /\ item_category' = ""
    /\ item_degraded' = FALSE

Event(step, item, ok) == [step |-> step, item |-> item, ok |-> ok]

\* a check that looks at the scraper only
ScraperOnly(comps) == "scraper" \in comps

\* `all([scraper, categorizer, content_generator, sheets_manager])`
all_components(comps) == comps = ComponentNames

\* the collaborators in the order of the check, with the names it reports
component_titles ==
    <<[name |-> "scraper", title |-> "Scraper"],
      [name |-> "categorizer", title |-> "Categorizer"],
      [name |-> "content_generator", title |-> "Content Generator"],
      [name |-> "sheets_manager", title |-> "Sheets Manager"]>>

\* the list `missing`, from position i of the check on
RECURSIVE missing_from(_, _)
missing_from(comps, i) ==
    IF i > Len(component_titles) THEN <<>>
    ELSE IF component_titles[i].name \in comps THEN missing_from(comps, i + 1)
    ELSE <<component_titles[i].title>> \o missing_from(comps, i + 1)

\* ", ".join(names)
RECURSIVE JoinComma(_)
JoinComma(names) ==
    IF names = <<>> THEN ""
    ELSE IF Len(names) = 1 THEN names[1]
    ELSE names[1] \o ", " \o JoinComma(Tail(names))

\* the error text of the response when a collaborator is None
not_initialized_error(comps) ==
    "Components not initialized: " \o JoinComma(missing_from(comps, 1))
        \o ". Check server logs."

\* POST /run-agent up to the batch loop
run_ai_agent ==
    /\ run_pc = "start"
    /\ IF ~all_components(components)
       THEN /\ response' = [NoResponse EXCEPT !.code = 500,
                                !.error = not_initialized_error(components)]
            /\ run_pc' = "done"
            /\ UNCHANGED <<trends, idx, processed_count, relevant_count,
                           skipped_count, error_count, results>>
       ELSE /\ trends' \in ScrapedLists
            /\ results' = <<>>
            /\ processed_count' = 0
            /\ relevant_count' = 0
            /\ skipped_count' = 0
            /\ error_count' = 0
            /\ idx' = 1
            /\ run_pc' = "loop"
            /\ UNCHANGED response
    /\ UNCHANGED <<components, item_category, item_degraded, events, csv_rows,
                   google_sheet, sheet_rows>>
    /\ UNCHANGED call_vars
    /\ UNCHANGED csv_calls

\* the loop takes the next trend of the batch and calls categorize
run_next_item ==
    /\ run_pc = "loop"
    /\ ~batch_finished(idx, trends_to_process(trends))
    /\ categorize(trends_to_process(trends)[idx])
    /\ events' = Append(events, Event("categorize", idx, TRUE))
    /\ run_pc' = "classifying"
    /\ UNCHANGED <<components, trends, idx, item_category, item_degraded,
                   processed_count, relevant_count, skipped_count, error_count,
                   results, response, csv_rows, google_sheet, sheet_rows>>
    /\ UNCHANGED csv_calls

\* categorize has returned: the branch on the label, up to the sleep
run_classified ==
    /\ run_pc = "classifying"
    /\ pc = "cat_returned"
    /\ IF is_relevant(label)
       THEN /\ item_category' = label
            /\ item_degraded' = CallsAllFailed
            /\ relevant_count' = relevant_count + 1
            /\ events' = IF item_delays(idx, trends_to_process(trends))
                          THEN Append(events, Event("sleep", idx, TRUE))
                          ELSE events
            /\ run_pc' = "classified"
            /\ UNCHANGED <<skipped_count, processed_count, idx>>
       ELSE /\ skipped_count' = skipped_count + 1
            /\ processed_count' = processed_count + 1
            /\ idx' = idx + 1
            /\ run_pc' = "loop"
            /\ ItemOver
            /\ UNCHANGED <<relevant_count, events>>
    /\ ResetCall
    /\ UNCHANGED <<components, trends, error_count, results, response, csv_rows,
                   google_sheet, sheet_rows>>
    /\ UNCHANGED csv_calls

\* generate_content is called for the relevant item
run_generate ==
    /\ run_pc = "classified"
    /\ generate_content(trends_to_process(trends)[idx], item_category)
    /\ events' = Append(events, Event("generate_content", idx, TRUE))
    /\ run_pc' = "generating"
    /\ UNCHANGED <<components, trends, idx, item_category, item_degraded,
                   processed_count, relevant_count, skipped_count, error_count,
                   results, response, csv_rows, google_sheet, sheet_rows>>
    /\ UNCHANGED csv_calls

\* datetime.now() as add_row formats it; no step of the service reads the
\* column
RunTimestamp == "2025-01-02 10:00:00"

\* generate_content has returned: validate_content (which only prints),
\* sheet_data, add_row and the counters
run_store_io(csv_io, sheets_io) ==
    /\ run_pc = "generating"
    /\ pc = "gen_returned"
    /\ LET data == sheet_data(trends_to_process(trends)[idx], item_category,
                              content)
           saved == add_row(csv_rows, google_sheet, sheet_rows, data,
                            RunTimestamp, csv_io, sheets_io)
       IN  /\ csv_rows' = saved.csv_rows
           /\ sheet_rows' = saved.sheet_rows
           /\ events' = Append(events, Event("add_row", idx, saved.success))
           /\ results' = saved_results(results, data, saved.success)
           /\ error_count' = IF saved.success THEN error_count
                              ELSE error_count + 1
    /\ processed_count' = processed_count + 1
    /\ idx' = idx + 1
    /\ run_pc' = "loop"
    /\ ResetCall
    /\ ItemOver
    /\ UNCHANGED <<components, trends, relevant_count, skipped_count, response,
                   google_sheet>>
    /\ UNCHANGED csv_calls

run_store ==
    \E csv_io \in IoOutcomes, sheets_io \in IoOutcomes : run_store_io(csv_io, sheets_io)

\* a collaborator call of the item is in progress: categorize,
\* generate_content, or validate_content and add_row after it
InItemCall ==
    \/ run_pc = "classifying" /\ pc = "categorize"
    \/ run_pc = "generating"

\* a run without the try block inside the loop: the exception ends the run
RaiseEndsRun ==
    /\ InItemCall
    /\ events' = Append(events, Event("except", idx, FALSE))
    /\ response' = [NoResponse EXCEPT !.code = 500, !.error = "Workflow failed"]
    /\ run_pc' = "done"
    /\ ResetCall
    /\ ItemOver
    /\ UNCHANGED <<components, trends, idx, processed_count, relevant_count,
                   skipped_count, error_count, results, csv_rows, google_sheet,
                   sheet_rows>>
    /\ UNCHANGED csv_calls

\* a run whose handler tries the same item again
RaiseRetriesItem ==
    /\ InItemCall
    /\ error_count' = error_count + 1
    /\ events' = Append(events, Event("except", idx, FALSE))
    /\ run_pc' = "loop"
    /\ ResetCall
    /\ ItemOver
    /\ UNCHANGED <<components, trends, idx, processed_count, relevant_count,
                   skipped_count, results, response, csv_rows, google_sheet,
                   sheet_rows>>
    /\ UNCHANGED csv_calls

\* a collaborator call of the item (categorize, generate_content,
\* validate_content or add_row before it writes) raises: `except Exception`
\* counts the error and continues with the next item
run_item_raises ==
    /\ InItemCall
    /\ error_count' = error_count + 1
    /\ events' = Append(events, Event("except", idx, FALSE))
    /\ idx' = idx + 1
    /\ run_pc' = "loop"
    /\ ResetCall
    /\ ItemOver
    /\ UNCHANGED <<components, trends, processed_count, relevant_count,
                   skipped_count, results, response, csv_rows, google_sheet,
                   sheet_rows>>
    /\ UNCHANGED csv_calls

\* the summary is returned
run_return ==
    /\ run_pc = "loop"
    /\ batch_finished(idx, trends_to_process(trends))
    /\ response' =
           [code |-> 200, success |-> TRUE, error |-> "",
            stats |-> [processed |-> processed_count, relevant |-> relevant_count,
                       skipped |-> skipped_count, errors |-> error_count,
                       saved |-> Len(results), batch_size |-> BATCH_SIZE],
            results |-> results]
    /\ run_pc' = "done"
    /\ UNCHANGED <<components, trends, idx, item_category, item_degraded,
                   processed_count, relevant_count, skipped_count, error_count,
                   results, events, csv_rows, google_sheet, sheet_rows>>
    /\ UNCHANGED call_vars
    /\ UNCHANGED csv_calls

(***************************************************************************)
(* Specification                                                           *)
(***************************************************************************)

Next ==
    \/ \E t \in CatTrends : categorize(t) /\ UNCHANGED run_vars
    \/ categorize_attempt /\ UNCHANGED run_vars
    \/ \E t \in GenTrends, c \in Labels : generate_content(t, c) /\ UNCHANGED run_vars
    \/ generate_attempt /\ UNCHANGED run_vars

Spec == Init /\ [][Next]_vars

\* a row saved by an earlier run and approved since
StoredRow ==
    [new_row_of(sheet_data(JobTrend, "Job Notification",
                           get_fallback_content(JobTrend, "Job Notification")),
                "2025-01-01 09:00:00")
         EXCEPT !.status = "Approved"]

\* the store when the request arrives: [csv, connected, sheet]
InitialStores ==
    {[csv |-> <<>>, connected |-> FALSE, sheet |-> <<>>],
     [csv |-> <<StoredRow>>, connected |-> TRUE, sheet |-> <<>>]}

\* one POST /run-agent request
InitRun ==
    /\ InitCall
    /\ InitLocals
    /\ run_pc = "start"
    /\ components \in SUBSET ComponentNames
    /\ \E store \in InitialStores :
           /\ csv_rows = store.csv
           /\ google_sheet = store.connected
           /\ sheet_rows = store.sheet

NextRun ==
    \/ run_ai_agent
    \/ run_next_item
    \/ categorize_attempt /\ UNCHANGED run_vars
    \/ run_classified
    \/ run_generate
    \/ generate_attempt /\ UNCHANGED run_vars
    \/ run_store
    \/ run_item_raises
    \/ run_return

SpecRun == InitRun /\ [][NextRun]_vars

(***************************************************************************)
(* The store under the requests of the service: the add_row of the runs,   *)
(* POST /update-status and POST /clear-data                                *)
(***************************************************************************)

\* the trends of the data given to add_row: one of the sample templates and
\* a title that is a whole number
StoreTrends == {JobTrend, NumberTrend}

\* the runs stop when the CSV file holds MaxRows rows
MaxRows == 2

\* the sheet_data of the items that reach add_row
StoreItems ==
    {sheet_data(t, "Job Notification", get_fallback_content(t, "Job Notification")) :
        t \in StoreTrends}

\* the JSON bodies of POST /update-status: the trends of the runs and the
\* header text of column B; the three statuses and another one; bodies that
\* lack a field
RequestBodies ==
    [trend : StoreTrends \cup {"Trend"},
     status : {"Pending Review", "Approved", "Rejected", "Published"}]
        \cup {<<>>, [trend |-> JobTrend], [status |-> "Approved"]}

\* the request as received
Request(route, body) == [step |-> route, body |-> body]

\* a call of the store manager and what it returned
StoreCall(step, trend, status, ok) ==
    [step |-> step, trend |-> trend, status |-> status, ok |-> ok]

\* a route that accepts every status
AnyStatus(new_status) == TRUE

\* `new_status in valid_statuses`
is_valid_status(new_status) ==
    new_status \in {"Pending Review", "Approved", "Rejected"}

\* `not data or 'trend' not in data or 'status' not in data`
missing_fields(body) == ~({"trend", "status"} \subseteq DOMAIN body)

\* an item of a run has its content: sheet_data and add_row
store_item(data, csv_io, sheets_io) ==
    /\ run_pc = "serving"
    /\ all_components(components)
    /\ LET saved == add_row(csv_rows, google_sheet, sheet_rows, data,
                            RunTimestamp, csv_io, sheets_io)
       IN  /\ Len(saved.csv_rows) <= MaxRows
           /\ csv_rows' = saved.csv_rows
           /\ sheet_rows' = saved.sheet_rows
           /\ events' = <<StoreCall("add_row", data.trend, data.status, saved.success)>>
    /\ UNCHANGED <<run_pc, components, trends, idx, item_category, item_degraded,
                   processed_count, relevant_count, skipped_count, error_count,
                   results, response, google_sheet>>
    /\ UNCHANGED call_vars
    /\ UNCHANGED csv_calls

\* POST /update-status
update_status(body, csv_io, sheets_io) ==
    /\ run_pc = "serving"
    /\ IF "sheets_manager" \notin components
       THEN /\ response' = [NoResponse EXCEPT !.code = 500,
                                !.error = "Sheets manager not initialized"]
            /\ events' = <<Request("/update-status", body)>>
            /\ UNCHANGED <<csv_rows, sheet_rows>>
       ELSE IF missing_fields(body)
       THEN /\ response' = [NoResponse EXCEPT !.code = 400,
                                !.error = "Missing required fields: trend and status"]
            /\ events' = <<Request("/update-status", body)>>
            /\ UNCHANGED <<csv_rows, sheet_rows>>
       ELSE IF ~is_valid_status(body.status)
       THEN /\ response' = [NoResponse EXCEPT !.code = 400,
                                !.error = "Invalid status"]
            /\ events' = <<Request("/update-status", body)>>
            /\ UNCHANGED <<csv_rows, sheet_rows>>
       ELSE LET updated == manager_update_status(csv_rows, google_sheet, sheet_rows,
                                                 body.trend, body.status,
                                                 csv_io, sheets_io)
            IN  /\ csv_rows' = updated.csv_rows
                /\ sheet_rows' = updated.sheet_rows
                /\ events' = <<Request("/update-status", body),
                               StoreCall("update_status", body.trend, body.status,
                                         updated.success)>>
                /\ response' =
                       IF updated.success
                       THEN [NoResponse EXCEPT !.code = 200, !.success = TRUE]
                       ELSE [NoResponse EXCEPT !.code = 500,
                                !.error = "Failed to update status"]
    /\ UNCHANGED <<run_pc, components, trends, idx, item_category, item_degraded,
                   processed_count, relevant_count, skipped_count, error_count,
                   results, google_sheet>>
    /\ UNCHANGED call_vars
    /\ UNCHANGED csv_calls

\* GET /get-trends: the records of get_all_data; the CSV file exists since
\* the manager was constructed (setup_csv)
get_trends(io) ==
    /\ run_pc = "serving"
    /\ response' =
           IF "sheets_manager" \notin components
           THEN [NoResponse EXCEPT !.code = 500,
                    !.error = "Sheets manager not initialized"]
           ELSE [NoResponse EXCEPT !.code = 200, !.success = TRUE,
                    !.results = get_all_data(TRUE, csv_rows, google_sheet,
                                             sheet_rows, io)]
    /\ events' = <<Request("/get-trends", <<>>)>>
    /\ UNCHANGED <<run_pc, components, trends, idx, item_category, item_degraded,
                   processed_count, relevant_count, skipped_count, error_count,
                   results, csv_rows, google_sheet, sheet_rows>>
    /\ UNCHANGED call_vars
    /\ UNCHANGED csv_calls

\* POST /clear-data: the route answers and leaves the store alone
clear_data ==
    /\ run_pc = "serving"
    /\ response' =
           IF "sheets_manager" \notin components
           THEN [NoResponse EXCEPT !.code = 500,
                    !.error = "Sheets manager not initialized"]
           ELSE [NoResponse EXCEPT !.code = 200, !.success = TRUE]
    /\ events' = <<Request("/clear-data", <<>>)>>
    /\ UNCHANGED <<run_pc, components, trends, idx, item_category, item_degraded,
                   processed_count, relevant_count, skipped_count, error_count,
                   results, csv_rows, google_sheet, sheet_rows>>
    /\ UNCHANGED call_vars
    /\ UNCHANGED csv_calls

\* the service with its store, between requests
InitStore ==
    /\ InitCall
    /\ InitLocals
    /\ run_pc = "serving"
    /\ components \in {ComponentNames, ComponentNames \ {"sheets_manager"}}
    /\ \E store \in InitialStores :
           /\ csv_rows = store.csv
           /\ google_sheet = store.connected
           /\ sheet_rows = store.sheet

NextStore ==
    \/ \E data \in StoreItems, csv_io \in IoOutcomes, sheets_io \in IoOutcomes :
          store_item(data, csv_io, sheets_io)
    \/ \E body \in RequestBodies, csv_io \in IoOutcomes, sheets_io \in IoOutcomes :
          update_status(body, csv_io, sheets_io)
    \/ \E io \in IoOutcomes : get_trends(io)
    \/ clear_data

SpecStore == InitStore /\ [][NextStore]_vars

(***************************************************************************)
(* Two requests on the CSV file at the same time: the server handles each  *)
(* request in a thread of its own, and the store manager takes no lock     *)
(***************************************************************************)

\* the trends of the two requests
SharedTrends == {JobTrend, HiringTrend}

\* a call of add_row or update_status that is about to read the file
CsvCall(step, trend, status) ==
    [step |-> step, trend |-> trend, status |-> status, pc |-> "read_csv",
     df |-> <<>>]

\* the add_row of an item of a run
AddCalls == {CsvCall("add_row", t, "Pending Review") : t \in SharedTrends}

\* the update_status of a POST /update-status
UpdateCalls ==
    {CsvCall("update_status", t, s) : t \in SharedTrends, s \in {"Approved", "Rejected"}}

\* two runs that save an item each, or a run and a POST /update-status
ConcurrentCalls == {<<a, b>> : a \in AddCalls, b \in AddCalls \cup UpdateCalls}

\* new_row of the add_row of a call
call_row(call) ==
    new_row_of(sheet_data(call.trend, "Job Notification",
                          get_fallback_content(call.trend, "Job Notification")),
               RunTimestamp)

\* df = pd.read_csv(self.csv_file) of call w: the thread holds the rows the
\* file has now; a read that raises ends the call with False
read_csv(w, io) ==
    /\ run_pc = "serving"
    /\ w \in DOMAIN csv_calls
    /\ csv_calls[w].pc = "read_csv"
    /\ IF io = "error"
       THEN /\ csv_calls' = [csv_calls EXCEPT ![w].pc = "returned"]
            /\ events' = Append(events, StoreCall(csv_calls[w].step, csv_calls[w].trend,
                                                  csv_calls[w].status, FALSE))
       ELSE /\ csv_calls' = [csv_calls EXCEPT ![w].pc = "to_csv", ![w].df = csv_rows]
            /\ UNCHANGED events
    /\ UNCHANGED <<run_pc, components, trends, idx, item_category, item_degraded,
                   processed_count, relevant_count, skipped_count, error_count,
                   results, response, csv_rows, google_sheet, sheet_rows>>
    /\ UNCHANGED call_vars

\* the rest of call w, on the df it has read: the duplicate test or the mask,
\* which look at df only, and df.to_csv(self.csv_file), which replaces the
\* file; without a connected sheet add_row and update_status return what the
\* CSV method returns
to_csv(w, io) ==
    /\ run_pc = "serving"
    /\ w \in DOMAIN csv_calls
    /\ csv_calls[w].pc = "to_csv"
    /\ LET call == csv_calls[w]
           result == IF call.step = "add_row"
                     THEN _add_to_csv(call.df, call_row(call), io)
                     ELSE _update_status_csv(call.df, call.trend, call.status, io)
       IN  /\ csv_rows' = IF result.success THEN result.rows ELSE csv_rows
           /\ events' = Append(events, StoreCall(call.step, call.trend, call.status,
                                                 result.success))
    /\ csv_calls' = [csv_calls EXCEPT ![w].pc = "returned"]
    /\ UNCHANGED <<run_pc, components, trends, idx, item_category, item_degraded,
                   processed_count, relevant_count, skipped_count, error_count,
                   results, response, google_sheet, sheet_rows>>
    /\ UNCHANGED call_vars

\* two calls enter the store manager of a server without a connected sheet
InitConcurrent ==
    /\ InitCall
    /\ trends = <<>>
    /\ idx = 0
    /\ item_category = ""
    /\ item_degraded = FALSE
    /\ processed_count = 0
    /\ relevant_count = 0
    /\ skipped_count = 0
    /\ error_count = 0
    /\ results = <<>>
    /\ events = <<>>
    /\ response = NoResponse
    /\ run_pc = "serving"
    /\ components = ComponentNames
    /\ csv_rows \in {<<>>, <<StoredRow>>}
    /\ google_sheet = FALSE
    /\ sheet_rows = <<>>
    /\ csv_calls \in ConcurrentCalls

NextConcurrent ==
    \/ \E w \in {1, 2}, io \in IoOutcomes : read_csv(w, io)
    \/ \E w \in {1, 2}, io \in IoOutcomes : to_csv(w, io)

SpecConcurrent == InitConcurrent /\ [][NextConcurrent]_vars

(***************************************************************************)
(* Properties                                                              *)
(***************************************************************************)

InCategorize == pc \in {"categorize", "cat_returned", "cat_raised"}

InGenerate == pc \in {"generate", "gen_returned", "gen_raised"}

NumCalls == Len(api_calls)

LastCall == api_calls[Len(api_calls)]

\* the call raised a rate-limit error
IsRateLimitFailure(o) == o.kind = "raise" /\ o.text \in RateLimitMessages

\* the call raised an error that is not a rate-limit error
IsServiceError(o) == o.kind = "raise" /\ o.text \in OtherErrorMessages

\* the call failed otherwise: another error, or a message without content
IsOtherFailure(o) == IsServiceError(o) \/ o.kind = "none"

\* at least one call was made and every call made was rate-limited
AllRateLimited ==
    /\ api_calls # <<>>
    /\ \A i \in 1..Len(api_calls) : IsRateLimitFailure(api_calls[i])

\* at least one call was made and no call returned a text
AllFailed ==
    /\ api_calls # <<>>
    /\ \A i \in 1..Len(api_calls) : api_calls[i].kind # "content"

\* C1: whatever the trend text and whatever each external call does,
\* categorize lets no exception reach its caller and the value it returns
\* is one of the four labels.
C1_CategorizeTotal ==
    /\ pc # "cat_raised"
    /\ pc = "cat_returned" => label \in Labels

\* categorize returned a label after two rate-limit errors and a third
\* call whose message had no content
C1_Witness ==
    /\ pc = "cat_returned"
    /\ NumCalls = 3
    /\ LastCall.kind = "none"
    /\ label \in Labels

\* C2: for a category other than 'Not Relevant', whatever the trend text
\* and whatever each external call does, generate_content lets no exception
\* reach its caller and returns a bundle of the four sections instagram,
\* blog, youtube, thumbnail with at least one of them non-empty.
C2_GenerateTotal ==
    /\ pc # "gen_raised"
    /\ (pc = "gen_returned" /\ category # "Not Relevant") =>
           /\ DOMAIN content = {"instagram", "blog", "youtube", "thumbnail"}
           /\ \E key \in DOMAIN content : content[key] # ""

\* generate_content returned a non-empty bundle after two rate-limited
\* calls and a third call whose response was the empty text
C2_Witness ==
    /\ pc = "gen_returned"
    /\ category = "Job Notification"
    /\ NumCalls = 3
    /\ LastCall = [kind |-> "content", text |-> ""]
    /\ content.instagram # ""

\* C3: when every external call fails with a rate-limit error, categorize
\* and generate_content each return only after exactly 3 external calls,
\* and return the keyword-based label, respectively the templated bundle.
C3_RetryBound ==
    /\ (pc \in {"categorize", "generate"} /\ AllRateLimited) => NumCalls < 3
    /\ (pc = "cat_returned" /\ AllRateLimited) =>
           /\ NumCalls = 3
           /\ label = _fallback_categorize(trend_text)
    /\ (pc = "gen_returned" /\ AllRateLimited) =>
           /\ NumCalls = 3
           /\ content = get_fallback_content(trend_text, category)

\* categorize returned the keyword label after three rate-limited calls
C3_Witness ==
    /\ pc = "cat_returned"
    /\ AllRateLimited
    /\ NumCalls = 3
    /\ trend_text = "SSC result 2025 declared"
    /\ label = "Result"

\* C4: when every external call fails with a rate-limit error, the waits
\* made before the fallback is returned add up to at least
\* base_delay * (1 + 2 + 4), 14 seconds for a base_delay of 2 seconds.
C4_BackoffAtLeast14 ==
    /\ (pc = "cat_returned" /\ AllRateLimited) =>
           Sum(sleeps) >= cat_base_delay * (1 + 2 + 4)
    /\ (pc = "gen_returned" /\ AllRateLimited) =>
           Sum(sleeps) >= gen_base_delay * (1 + 2 + 4)

\* C5 as stated: an invocation in which an external call failed with an
\* error that is not a rate-limit error made exactly one external call,
\* waited for nothing and returned the fallback.
C5_SingleCallOnError ==
    (pc \in {"cat_returned", "gen_returned"}
         /\ \E i \in 1..Len(api_calls) : IsServiceError(api_calls[i])) =>
        /\ NumCalls = 1
        /\ sleeps = <<>>
        /\ pc = "cat_returned" => label = _fallback_categorize(trend_text)
        /\ pc = "gen_returned" => content = get_fallback_content(trend_text, category)

\* C5, amended: an external call that fails with an error that is not a
\* rate-limit error is never retried: the retry loop goes on only after
\* rate-limit errors, the failed call is the last call of the invocation,
\* no wait follows it (one wait per earlier call), and the fallback is
\* returned; when it is the first call, one call was made and no wait.
C5_NoRetryAfterError ==
    /\ pc \in {"categorize", "generate"} =>
           \A i \in 1..Len(api_calls) : IsRateLimitFailure(api_calls[i])
    /\ pc \in {"cat_returned", "gen_returned"} =>
           \A i \in 1..Len(api_calls) :
               IsOtherFailure(api_calls[i]) =>
                   /\ i = NumCalls
                   /\ Len(sleeps) = i - 1
                   /\ pc = "cat_returned" =>
                          label = _fallback_categorize(trend_text)
                   /\ pc = "gen_returned" =>
                          content = get_fallback_content(trend_text, category)

\* generate_content returned the fallback right after a connection error
\* that followed one rate-limited call and its 2 second wait
C5_Witness ==
    /\ pc = "gen_returned"
    /\ NumCalls = 2
    /\ IsRateLimitFailure(api_calls[1])
    /\ api_calls[2] = [kind |-> "raise", text |-> "Connection error."]
    /\ sleeps = <<2>>
    /\ content = get_fallback_content(trend_text, category)

\* C6: with every external call failing, categorize returns 'Admit Card',
\* 'Job Notification', 'Result' and 'Not Relevant' for the four sample
\* trend texts.
C6_SampleTrends ==
    (pc = "cat_returned" /\ AllFailed) =>
        /\ trend_text = "SBI PO admit card 2025 release date" => label = "Admit Card"
        /\ trend_text = "UPSC recruitment 2025 notification" => label = "Job Notification"
        /\ trend_text = "SSC result 2025 declared" => label = "Result"
        /\ trend_text = "iPhone 15 price drop" => label = "Not Relevant"

\* categorize returned 'Admit Card' for the SBI trend after a server error
C6_Witness ==
    /\ pc = "cat_returned"
    /\ AllFailed
    /\ IsOtherFailure(LastCall)
    /\ trend_text = "SBI PO admit card 2025 release date"
    /\ label = "Admit Card"

\* the keyword set a fragment of TrendFragments belongs to, by priority:
\* 1 admit-card term, 2 job term, 3 result term, 4 organization, 5 none
FragmentRank(fragment) ==
    CASE fragment \in {"admit card", "HALL TICKET"} -> 1
      [] fragment = "vacancy" -> 2
      [] fragment = "Result" -> 3
      [] fragment = "police" -> 4
      [] OTHER -> 5

RankLabel(rank) ==
    CASE rank = 1 -> "Admit Card"
      [] rank = 2 -> "Job Notification"
      [] rank = 3 -> "Result"
      [] rank = 4 -> "Job Notification"
      [] OTHER -> "Not Relevant"

\* the highest priority among the fragments of a trend
BestRank(words) ==
    IF words = <<>> THEN 5
    ELSE CHOOSE r \in 1..5 :
             /\ \E i \in 1..Len(words) : FragmentRank(words[i]) = r
             /\ \A i \in 1..Len(words) : FragmentRank(words[i]) >= r

\* C7: the keyword fallback decides in priority order, whatever the case
\* of the letters and the order of the words: a trend made of fragments of
\* the keyword sets gets 'Admit Card' if it has an admit-card term, else
\* 'Job Notification' if it has a job term, else 'Result' if it has a
\* result term, else 'Job Notification' if it has an organization name,
\* else 'Not Relevant'.
C7_FallbackPriority ==
    (pc = "cat_returned" /\ AllFailed) =>
        \A words \in WordSeqs :
            trend_text = JoinWords(words) => label = RankLabel(BestRank(words))

\* the fallback returned 'Admit Card' for a trend whose result term comes
\* before its admit-card term
C7_Witness ==
    /\ pc = "cat_returned"
    /\ AllFailed
    /\ trend_text = "Result HALL TICKET"
    /\ label = "Admit Card"

\* the response of a successful call with the think block removed
CleanedResponse(text) == Strip(RemoveThink(Strip(text)))

\* the mapping of C8 as stated, on the lower-cased response
StatedLabel(cleaned) ==
    LET lower == Lower(cleaned)
    IN  IF cleaned \in Labels THEN cleaned
        ELSE IF Contains(lower, "admit") THEN "Admit Card"
        ELSE IF Contains(lower, "job") \/ Contains(lower, "vacancy")
                  \/ Contains(lower, "recruitment") \/ Contains(lower, "notification")
             THEN "Job Notification"
        ELSE IF Contains(lower, "result") \/ Contains(lower, "merit") THEN "Result"
        ELSE "Not Relevant"

\* C8 as stated: the label of a successful response is the response itself
\* if it is a label name, else 'Admit Card' if it contains "admit", else
\* 'Job Notification' if it contains "job", "vacancy", "recruitment" or
\* "notification", else 'Result' if it contains "result" or "merit", else
\* 'Not Relevant'.
C8_StatedMapping ==
    (pc = "cat_returned" /\ api_calls # <<>> /\ LastCall.kind = "content") =>
        label = StatedLabel(CleanedResponse(LastCall.text))

\* the mapping of C8 as amended, on the lower-cased response
AmendedLabel(cleaned) ==
    LET lower == Lower(cleaned)
    IN  IF Contains(lower, "admit card") THEN "Admit Card"
        ELSE IF Contains(lower, "job notification") THEN "Job Notification"
        ELSE IF Contains(lower, "result") THEN "Result"
        ELSE IF Contains(lower, "not relevant") THEN "Not Relevant"
        ELSE IF Contains(lower, "admit") \/ Contains(lower, "hall ticket")
             THEN "Admit Card"
        ELSE IF Contains(lower, "job") \/ Contains(lower, "vacancy")
                  \/ Contains(lower, "recruitment") \/ Contains(lower, "notification")
             THEN "Job Notification"
        ELSE IF Contains(lower, "result") \/ Contains(lower, "merit") THEN "Result"
        ELSE "Not Relevant"

\* C8, amended: the label of a successful response is the first of
\* 'Admit Card', 'Job Notification', 'Result', 'Not Relevant' whose name
\* occurs in the response, letter case ignored; if none occurs, 'Admit
\* Card' if it contains "admit" or "hall ticket", else 'Job Notification'
\* if it contains "job", "vacancy", "recruitment" or "notification", else
\* 'Result' if it contains "result" or "merit", else 'Not Relevant'.
C8_ResponseMapping ==
    (pc = "cat_returned" /\ api_calls # <<>> /\ LastCall.kind = "content") =>
        label = AmendedLabel(CleanedResponse(LastCall.text))

\* a response that names 'Not Relevant' and mentions "admit" was mapped to
\* 'Not Relevant'
C8_Witness ==
    /\ pc = "cat_returned"
    /\ api_calls # <<>>
    /\ LastCall = [kind |-> "content",
                   text |-> "This is not relevant, it only mentions admit"]
    /\ label = "Not Relevant"

\* C9: generate_content called with category 'Not Relevant' or with an
\* empty trend text makes no external call and returns the fallback
\* content at once.
C9_SkipIrrelevant ==
    (InGenerate /\ (category = "Not Relevant" \/ trend_text = "")) =>
        /\ api_calls = <<>>
        /\ pc = "gen_returned"
        /\ content = get_fallback_content(trend_text, category)

\* generate_content returned for an empty trend text without any call
C9_Witness ==
    /\ pc = "gen_returned"
    /\ trend_text = ""
    /\ category = "Admit Card"
    /\ api_calls = <<>>
    /\ content = get_fallback_content("", "Admit Card")

\* C10: when a call succeeds and its response parses to four empty
\* sections, generate_content returns the fallback content, never the
\* empty bundle, and no call follows a call that succeeded.
C10_EmptyParseFallsBack ==
    /\ InGenerate =>
           \A i \in 1..(Len(api_calls) - 1) : api_calls[i].kind # "content"
    /\ (pc = "gen_returned" /\ api_calls # <<>> /\ LastCall.kind = "content"
            /\ parse_content(generator_clean_deepseek_response(LastCall.text))
                   = EmptyContent) =>
           /\ content = get_fallback_content(trend_text, category)
           /\ content # EmptyContent

\* a response holding nothing but two header tokens, received after one
\* rate-limited call, was answered with the fallback content
C10_Witness ==
    /\ pc = "gen_returned"
    /\ NumCalls = 2
    /\ LastCall = [kind |-> "content", text |-> "INSTAGRAM_POST: BLOG_DRAFT:"]
    /\ content = get_fallback_content(trend_text, category)

\* generate_content returned the parse of the four-section response built
\* from texts and gap
ReturnedParseOf(texts, gap) ==
    /\ pc = "gen_returned"
    /\ NumCalls > 0
    /\ LastCall.kind = "content"
    /\ LastCall.text = FourSections(texts, gap, 1)

RECURSIVE JoinKeptLines(_, _)
\* the lines from i on that are neither blank nor a rule, each trimmed, joined
\* by single spaces
JoinKeptLines(lines, i) ==
    IF i > Len(lines) THEN ""
    ELSE LET line == Strip(lines[i])
             rest == JoinKeptLines(lines, i + 1)
             rule == \E mark \in {"---", "===", "***"} : StartsWith(line, mark)
         IN  IF line = "" \/ rule THEN rest
             ELSE IF rest = "" THEN line
             ELSE line \o " " \o rest

EventsWhere(step) == {k \in DOMAIN events : events[k].step = step}

FailedWrites == {k \in EventsWhere("add_row") : ~events[k].ok}

OkWrites == {k \in EventsWhere("add_row") : events[k].ok}

Excepts == EventsWhere("except")

\* the run has returned the summary
Returned == run_pc = "done" /\ components = ComponentNames

\* every item of the batch has been given to categorize
AllClassified ==
    \A i \in 1..Len(trends_to_process(trends)) :
        \E k \in EventsWhere("categorize") : events[k].item = i

\* the first trends of the list, at most BATCH_SIZE of them
FirstTrends ==
    {trends[i] : i \in {j \in 1..BATCH_SIZE : j <= Len(trends)}}

\* C13: whatever the length of the scraped list, only its first BATCH_SIZE
\* trends are classified, generated for or written: every call of the run is
\* for an item 1..BATCH_SIZE, at most BATCH_SIZE items are classified, every
\* row of the store that was not there before and every saved record holds
\* one of the first trends, and processed never exceeds BATCH_SIZE.
C13_BatchCap ==
    /\ \A k \in DOMAIN events : events[k].item \in 1..BATCH_SIZE
    /\ Cardinality(EventsWhere("categorize")) <= BATCH_SIZE
    /\ \A rows \in {csv_rows, sheet_rows, results} :
           \A j \in DOMAIN rows : rows[j] = StoredRow \/ rows[j].trend \in FirstTrends
    /\ processed_count <= BATCH_SIZE
    /\ Returned => response.stats.processed <= BATCH_SIZE

C13_Witness ==
    /\ Returned
    /\ Len(trends) > BATCH_SIZE
    /\ processed_count = BATCH_SIZE
    /\ Len(results) = 2

\* C14: when categorize returns "Not Relevant" for an item, the step of the
\* orchestrator that follows increments skipped, makes no call of
\* generate_content or add_row, leaves the store and the saved results
\* unchanged and moves on to the next item.
C14_SkipsNotRelevant ==
    [][(run_pc = "classifying" /\ pc = "cat_returned" /\ label = "Not Relevant")
           => /\ skipped_count' = skipped_count + 1
              /\ events' = events
              /\ csv_rows' = csv_rows
              /\ sheet_rows' = sheet_rows
              /\ results' = results
              /\ relevant_count' = relevant_count
              /\ error_count' = error_count
              /\ idx' = idx + 1
              /\ run_pc' = "loop"]_vars

C14_Witness ==
    /\ run_pc = "loop"
    /\ idx = 3
    /\ skipped_count = 1
    /\ events[Len(events)] = Event("categorize", 2, TRUE)
    /\ Len(results) = 1

\* C15: once add_row has returned False for an item, errors counts that
\* failure (errors = failed writes + exceptions), the item is not among the
\* saved results (saved = successful writes), and the run still classifies
\* every item of the batch and returns the success summary.
C15_WriteFailureCounted ==
    FailedWrites # {} =>
        /\ error_count = Cardinality(FailedWrites) + Cardinality(Excepts)
        /\ Len(results) = Cardinality(OkWrites)
        /\ Returned => response.success /\ response.code = 200 /\ AllClassified

C15_Witness ==
    /\ Returned
    /\ \E k \in FailedWrites : events[k].item = 1
    /\ \E k \in OkWrites : events[k].item = 3

\* C16: once a step of an item has raised, the run still returns the success
\* summary with every item of the batch classified, and errors holds exactly
\* one error for that item.
C16_ExceptionContained ==
    Excepts # {} =>
        /\ \A k \in Excepts :
               Cardinality({m \in Excepts \cup FailedWrites :
                                events[m].item = events[k].item}) = 1
        /\ error_count = Cardinality(Excepts) + Cardinality(FailedWrites)
        /\ Returned =>
               /\ response.success
               /\ response.code = 200
               /\ response.stats.errors = error_count
               /\ AllClassified

C16_Witness ==
    /\ Returned
    /\ response.success
    /\ \E k \in Excepts : events[k].item = 1
    /\ \E k \in Excepts : events[k].item = 2 /\ events[k - 1].step = "generate_content"
    /\ \E k \in OkWrites : events[k].item = 3

\* the item of event k is the last one of the batch
LastOfBatch(k) == events[k].item = Len(trends_to_process(trends))

StepRank(step) ==
    CASE step = "categorize" -> 1
      [] step = "sleep" -> 2
      [] step = "generate_content" -> 3
      [] step = "add_row" -> 4
      [] OTHER -> 5

IsOkWrite(e) == e.step = "add_row" /\ e.ok

\* C18: the calls of a run are made item by item in input order, inside an
\* item in the order categorize, delay, generate_content, add_row; an open
\* call of categorize or generate_content is the last call made and belongs
\* to the current item, so every earlier call has returned; the saved
\* records are those of the successful writes, in input order.
C18_InOrder ==
    /\ \A k \in DOMAIN events, m \in DOMAIN events :
           k < m =>
               \/ events[k].item < events[m].item
               \/ /\ events[k].item = events[m].item
                  /\ StepRank(events[k].step) < StepRank(events[m].step)
    /\ \A k \in DOMAIN events :
           \/ events[k].step = "categorize"
           \/ k > 1 /\ events[k - 1].item = events[k].item
    /\ \A k \in EventsWhere("add_row") :
           events[k - 1] = Event("generate_content", events[k].item, TRUE)
    /\ pc \in {"categorize", "cat_returned"} =>
           events # <<>> /\ events[Len(events)] = Event("categorize", idx, TRUE)
    /\ pc \in {"generate", "gen_returned"} =>
           events # <<>> /\ events[Len(events)] = Event("generate_content", idx, TRUE)
    /\ LET writes == SelectSeq(events, IsOkWrite)
       IN  /\ Len(results) = Len(writes)
           /\ \A j \in DOMAIN writes : results[j].trend = trends[writes[j].item]
           /\ \A j \in DOMAIN writes, n \in DOMAIN writes :
                  j < n => writes[j].item < writes[n].item

C18_Witness ==
    /\ Returned
    /\ Len(results) = 2
    /\ results[1].trend = HiringTrend
    /\ results[2].trend = JobTrend
    /\ Len(events) = 9

\* the steps one iteration of the batch loop can take at most
ItemSteps == 20

\* the steps the current iteration can still take
StepsLeftInItem ==
    CASE run_pc = "classifying" /\ pc = "categorize" -> 12 - attempt
      [] run_pc = "classifying" -> 8
      [] run_pc = "classified" -> 7
      [] run_pc = "generating" /\ pc = "generate" -> 6 - attempt
      [] run_pc = "generating" -> 2
      [] OTHER -> 0

\* a bound on the steps the run can still take
StepsLeft ==
    CASE run_pc = "done" -> 0
      [] run_pc = "start" -> (BATCH_SIZE + 1) * ItemSteps + 2
      [] run_pc = "loop" ->
             (Len(trends_to_process(trends)) - idx + 1) * ItemSteps + 1
      [] OTHER ->
             (Len(trends_to_process(trends)) - idx) * ItemSteps + 1
                 + StepsLeftInItem

\* the run is not stuck: a step of the orchestrator can be taken, or a call
\* of categorize or generate_content is inside its retry loop, where every
\* outcome of the service has a branch
CanStep ==
    \/ ENABLED <<run_ai_agent \/ run_next_item \/ run_classified \/ run_generate
                     \/ run_store \/ run_return>>_vars
    \/ pc \in {"categorize", "generate"} /\ attempt \in 0..cat_max_retries

\* C19: every run comes to its end and returns the summary, whatever the
\* service and the store do: every step lowers a natural-number bound on the
\* steps left, a run that has not returned can take a step, and a run that
\* has returned (with its collaborators there) has returned the success
\* summary.
C19_Terminates ==
    /\ [][StepsLeft' < StepsLeft]_vars
    /\ [](StepsLeft \in Nat)
    /\ [](run_pc # "done" => CanStep)
    /\ [](Returned => response.success /\ response.code = 200
                         /\ response.stats.batch_size = BATCH_SIZE)

C19_Witness ==
    /\ Returned
    /\ response.success
    /\ response.stats.errors = 2
    /\ response.stats.saved = 1
    /\ Len(trends) > BATCH_SIZE

\* the trend of the current iteration
ItemTrend == trends_to_process(trends)[idx]

\* the trend text is in the CSV file or in the Google Sheet
Stored(trend) == trend \in RowTrends(csv_rows) \cup RowTrends(sheet_rows)

\* the record of a trend made of the keyword label and the templated bundle
FallbackRecord(trend) ==
    LET keyword_label == _fallback_categorize(trend)
        bundle == get_fallback_content(trend, keyword_label)
    IN  [trend |-> trend, category |-> keyword_label,
         instagram_post |-> bundle.instagram, blog_draft |-> bundle.blog,
         youtube_script |-> bundle.youtube, thumbnail_idea |-> bundle.thumbnail,
         status |-> "Pending Review"]

\* classification has returned for an item all of whose calls failed and
\* whose keyword label is relevant
DegradedClassified ==
    /\ run_pc = "classifying"
    /\ pc = "cat_returned"
    /\ CallsAllFailed
    /\ _fallback_categorize(trend_text) # "Not Relevant"

\* generation has returned for an item all of whose calls failed, whose
\* keyword label is relevant and whose trend is not stored yet
DegradedGenerated ==
    /\ run_pc = "generating"
    /\ pc = "gen_returned"
    /\ item_degraded
    /\ CallsAllFailed
    /\ _fallback_categorize(ItemTrend) # "Not Relevant"
    /\ ~Stored(ItemTrend)

\* the item goes on to generation with its keyword label
DegradedGoesOn ==
    [][DegradedClassified =>
           /\ run_pc' = "classified"
           /\ item_category' = _fallback_categorize(trend_text)
           /\ item_degraded']_vars

\* the summary reports the saved records
SummaryReportsSaved ==
    [](Returned => response.results = results
                     /\ response.stats.saved = Len(results))

\* C20 as stated: when every external call made for an item fails, its
\* keyword label is relevant and its trend is not stored yet, the call of
\* add_row for it saves the record with the fallback content and status
\* "Pending Review", and the summary reports the saved records.
C20_DegradedSaved ==
    /\ DegradedGoesOn
    /\ [][\A csv_io \in IoOutcomes, sheets_io \in IoOutcomes :
              (DegradedGenerated /\ run_store_io(csv_io, sheets_io))
                  => results' = Append(results, FallbackRecord(ItemTrend))]_vars
    /\ SummaryReportsSaved

\* C20 amended: when every external call made for an item fails, its keyword
\* label is relevant, its trend is not stored yet and the write to the CSV
\* file or to the connected Google Sheet does not fail, the call of add_row
\* for it saves the record with the fallback content and status "Pending
\* Review", and the summary reports the saved records.
C20_DegradedSavedUnlessWriteFails ==
    /\ DegradedGoesOn
    /\ [][\A csv_io \in IoOutcomes, sheets_io \in IoOutcomes :
              (/\ DegradedGenerated
               /\ csv_io = "ok" \/ (google_sheet /\ sheets_io = "ok")
               /\ run_store_io(csv_io, sheets_io))
                  => /\ results' = Append(results, FallbackRecord(ItemTrend))
                     /\ ItemTrend \in RowTrends(csv_rows') \cup RowTrends(sheet_rows')]_vars
    /\ SummaryReportsSaved

C20_Witness ==
    /\ Returned
    /\ response.results = <<FallbackRecord(HiringTrend), FallbackRecord(JobTrend)>>
    /\ response.stats.saved = 2
    /\ response.stats.skipped = 1

(***************************************************************************)
(* Properties of the requests when a collaborator is missing               *)
(***************************************************************************)

\* the store and the collaborators' traces are as they were
RunNotStarted ==
    /\ trends = <<>>
    /\ events = <<>>
    /\ results = <<>>
    /\ pc = "idle"
    /\ api_calls = <<>>
    /\ idx = 0

\* the names the error text reports are those of the missing collaborators
NamesMissing(error) ==
    \A i \in DOMAIN component_titles :
        Contains(error, component_titles[i].title)
            <=> component_titles[i].name \notin components

\* C21: when one of the four collaborators is None, POST /run-agent answers
\* with a failure (success false, code 500) whose error text names exactly
\* the missing collaborators, and nothing of the run happens: no trend is
\* fetched, categorize and generate_content are never called, and no step
\* changes the CSV rows or the sheet rows.
C21_MissingCollaborators ==
    /\ [](components # ComponentNames =>
            /\ RunNotStarted
            /\ run_pc = "done" =>
                 /\ ~response.success
                 /\ response.code = 500
                 /\ StartsWith(response.error, "Components not initialized: ")
                 /\ NamesMissing(response.error))
    /\ [][components # ComponentNames =>
            /\ run_pc' = "done"
            /\ UNCHANGED <<csv_rows, sheet_rows, google_sheet>>]_vars

\* the request was answered with the categorizer and the sheets manager
\* missing, over a store that holds a row
C21_Witness ==
    /\ components = {"scraper", "content_generator"}
    /\ run_pc = "done"
    /\ response.error
         = "Components not initialized: Categorizer, Sheets Manager. Check server logs."
    /\ csv_rows = <<StoredRow>>

(***************************************************************************)
(* Properties of the store                                                 *)
(***************************************************************************)

\* the last step was the add_row of a run
AddedRow(log) == log # <<>> /\ log[1].step = "add_row"

\* the last step was a POST /update-status that reached the manager
UpdatedStatus(log) ==
    /\ Len(log) = 2
    /\ log[1].step = "/update-status"
    /\ log[2].step = "update_status"

\* every row of old is in new, at its place, with its status
StatusKept(old, new) ==
    \A i \in DOMAIN old : i \in DOMAIN new /\ new[i].status = old[i].status

\* the rows of new that old does not have are pending review
CreatedPending(old, new) ==
    \A i \in DOMAIN new \ DOMAIN old : new[i].status = "Pending Review"

\* C22: every row that a run adds to the CSV file or the sheet has status
\* 'Pending Review'; the add_row of a run changes the status of no row that
\* is already there, also when the trend of the item is already stored; and
\* a step that changes the status of a stored row is a status update
\* (POST /update-status reaching update_status).
C22_StatusOnlyByUpdate ==
    [][/\ AddedRow(events') =>
            /\ StatusKept(csv_rows, csv_rows')
            /\ StatusKept(sheet_rows, sheet_rows')
       /\ CreatedPending(csv_rows, csv_rows')
       /\ CreatedPending(sheet_rows, sheet_rows')
       /\ ~(StatusKept(csv_rows, csv_rows') /\ StatusKept(sheet_rows, sheet_rows'))
            => UpdatedStatus(events')]_vars

\* a run saved a new trend as pending and then met the trend of the approved
\* row again: add_row returned False and the row is still approved
C22_Witness ==
    /\ events = <<StoreCall("add_row", JobTrend, "Pending Review", FALSE)>>
    /\ Len(csv_rows) = 2
    /\ csv_rows[1] = StoredRow
    /\ csv_rows[2].trend = NumberTrend
    /\ csv_rows[2].status = "Pending Review"

\* the statuses of the rows of the CSV file and of the sheet
StoredStatuses ==
    {csv_rows[i].status : i \in DOMAIN csv_rows}
        \cup {sheet_rows[i].status : i \in DOMAIN sheet_rows}

\* the log is that of a POST /update-status whose body carries a trend and a
\* status that is not one of the three
InvalidStatusRequest(log) ==
    /\ log # <<>>
    /\ log[1].step = "/update-status"
    /\ {"trend", "status"} \subseteq DOMAIN log[1].body
    /\ log[1].body.status \notin {"Pending Review", "Approved", "Rejected"}

RowsOf(trend, csv, sheet) ==
    {csv[i] : i \in {j \in DOMAIN csv : csv[j].trend = trend}}
        \cup {sheet[i] : i \in {j \in DOMAIN sheet : sheet[j].trend = trend}}

\* C24 as stated: update_status(trend, status) returns False and changes no
\* row when no row of the CSV file or the sheet has the trend; when a row has
\* the trend it returns True and afterwards every row of the trend has the
\* requested status.
C24_UpdateByTrend ==
    [][UpdatedStatus(events') =>
          IF RowsOf(events'[2].trend, csv_rows, sheet_rows) = {}
          THEN /\ ~events'[2].ok
               /\ UNCHANGED <<csv_rows, sheet_rows>>
          ELSE /\ events'[2].ok
               /\ \A row \in RowsOf(events'[2].trend, csv_rows', sheet_rows') :
                      row.status = events'[2].status]_vars

\* C25 as stated: add_row returns False and adds no row when a row of the
\* CSV file or of the sheet already has the trend of the data; when it
\* returns True the trend was in neither and a row of the trend was written.
C25_AddRowNewOnly ==
    [][AddedRow(events') =>
          /\ RowsOf(events'[1].trend, csv_rows, sheet_rows) # {} =>
                /\ ~events'[1].ok
                /\ UNCHANGED <<csv_rows, sheet_rows>>
          /\ events'[1].ok =>
                /\ RowsOf(events'[1].trend, csv_rows, sheet_rows) = {}
                /\ RowsOf(events'[1].trend, csv_rows', sheet_rows') # {}]_vars

\* the two rows agree on every column but the status
SameButStatus(old_row, row) == [row EXCEPT !.status = old_row.status] = old_row

\* from old to new no row is lost, every row keeps its place and its
\* columns but the status, and a status changes only in a status update for
\* the trend of the row
AppendOnly(old, new, log) ==
    /\ Len(new) >= Len(old)
    /\ \A i \in DOMAIN old :
          /\ i \in DOMAIN new
          /\ SameButStatus(old[i], new[i])
          /\ new[i].status # old[i].status =>
                /\ UpdatedStatus(log)
                /\ log[2].trend = old[i].trend

ParsedReturn ==
    /\ pc = "gen_returned"
    /\ NumCalls > 0
    /\ LastCall.kind = "content"
    /\ content # get_fallback_content(trend_text, category)

\* the lines that parse_content scans for the last call
ScannedLines == SplitLines(generator_clean_deepseek_response(LastCall.text))

\* the index of the header that starts the trimmed line, 0 if there is none
HeaderOf(line) ==
    IF HeaderHits(line) = {} THEN 0
    ELSE CHOOSE k \in HeaderHits(line) : \A m \in HeaderHits(line) : k <= m

\* a line of three or more of one separator sign and nothing else
IsRule(line) ==
    /\ Len(line) >= 3
    /\ \E mark \in {"-", "=", "*"} :
           \A i \in 1..Len(line) : SubSeq(line, i, i) = mark

RECURSIVE SectionPieces(_, _, _, _)
\* the texts that belong to section k from line i on, when the section of
\* header `active` is active: the inline content of each header line of k and
\* every line under it that is neither blank nor a rule
SectionPieces(lines, i, active, k) ==
    IF i > Len(lines) THEN <<>>
    ELSE LET line == Strip(lines[i])
             h == HeaderOf(line)
             inline == Strip(SubSeq(line, Len(section_headers[k]) + 1, Len(line)))
         IN  IF h # 0
             THEN (IF h = k /\ inline # "" THEN <<inline>> ELSE <<>>)
                      \o SectionPieces(lines, i + 1, h, k)
             ELSE IF active = k /\ line # "" /\ ~IsRule(line)
             THEN <<line>> \o SectionPieces(lines, i + 1, active, k)
             ELSE SectionPieces(lines, i + 1, active, k)

\* C27 as stated: the text that parse_content returns for a section contains
\* the inline content of every header line of the section and every line
\* under such a header that is neither blank nor a separator, also when the
\* header of the section occurs more than once.
C27_NothingDropped ==
    ParsedReturn =>
        \A k \in 1..Len(section_keys) :
            LET pieces == SectionPieces(ScannedLines, 1, 0, k)
            IN  \A j \in DOMAIN pieces : Contains(content[section_keys[k]], pieces[j])

\* the scan of the first n lines
ScanUpTo(lines, n) ==
    ParseLines([current_section |-> "", content |-> EmptyContent],
               SubSeq(lines, 1, n), 1)

\* C28 as stated: a line that is neither blank nor a header and is met while
\* a section is active leaves the sections as they are exactly when it
\* consists of repeated separator signs only; a line with other text is
\* appended.
C28_OnlyRulesIgnored ==
    (InGenerate /\ NumCalls > 0 /\ LastCall.kind = "content") =>
        \A i \in DOMAIN ScannedLines :
            LET st == ScanUpTo(ScannedLines, i - 1)
                line == Strip(ScannedLines[i])
            IN  (st.current_section # "" /\ line # "" /\ HeaderOf(line) = 0) =>
                    (ParseLine(st, ScannedLines[i]) = st <=> IsRule(line))

\* C29 as stated: each of the four section texts that parse_content returns
\* is trimmed and contains none of the four header tokens.
C29_NoHeaderTokens ==
    ParsedReturn =>
        \A k \in 1..Len(section_keys) :
            /\ content[section_keys[k]] = Strip(content[section_keys[k]])
            /\ \A h \in 1..Len(section_headers) :
                   ~Contains(content[section_keys[k]], section_headers[h])

\* the label categorize returns when the service answers with the text
AnsweredLabel(text) ==
    _validate_category(categorizer_clean_deepseek_response(Strip(text)))

\* the bundle generate_content returns when the service answers with the text
AnsweredContent(text, trend, cat) ==
    LET parsed == parse_content(generator_clean_deepseek_response(text))
    IN  IF AnyValue(parsed) THEN parsed ELSE get_fallback_content(trend, cat)

\* the call returned on an answer of the service with this text
ReturnedOn(returned_pc, text) ==
    /\ pc = returned_pc
    /\ NumCalls > 0
    /\ LastCall = [kind |-> "content", text |-> text]

\* C30: when categorize or generate_content returns on a response that holds
\* a text between paired <think> and </think> markers, the label or the
\* bundle is the one that the same response with any other text (or none)
\* between the markers gives.
C30_ThinkIgnored ==
    /\ \A frame \in CatThinkFrames, text \in ThinkTexts :
           ReturnedOn("cat_returned", WithThink(frame, text)) =>
               \A other \in ThinkTexts \cup {""} :
                   label = AnsweredLabel(WithThink(frame, other))
    /\ \A frame \in GenThinkFrames, text \in ThinkTexts :
           ReturnedOn("gen_returned", WithThink(frame, text)) =>
               \A other \in ThinkTexts \cup {""} :
                   content = AnsweredContent(WithThink(frame, other),
                                             trend_text, category)

\* generate_content returned the two sections of a response whose reasoning
\* block names a category and holds a header line
C30_Witness ==
    /\ \E frame \in GenThinkFrames :
           ReturnedOn("gen_returned",
                      WithThink(frame, "Admit Card\nINSTAGRAM_POST: hid"))
    /\ content = [EmptyContent EXCEPT !.instagram = "Apply", !.blog = "Read"]

(***************************************************************************)
(* Properties of the retry timing                                          *)
(***************************************************************************)

\* the calls before the last one all failed with a rate-limit error
RateLimitedBefore ==
    \A i \in 1..(NumCalls - 1) : IsRateLimitFailure(api_calls[i])

\* the waits of a call that made n external calls: 2 s before the second,
\* 4 s before the third
WaitsBefore(n) == SubSeq(<<2, 4>>, 1, n - 1)

\* C31: when categorize or generate_content returns and its last external
\* call (the k-th, the k - 1 before it having failed with a rate-limit
\* error) returned a response, then k is 1, 2 or 3, the waits were 2 s before
\* the second call and 4 s before the third, and the label or bundle is the
\* one derived from that response; a call that returned a response is the
\* last one, so the fallback value is returned only when no call returned a
\* usable response.
C31_RetryThenAnswer ==
    /\ (pc = "cat_returned" /\ NumCalls > 0 /\ LastCall.kind = "content"
            /\ RateLimitedBefore) =>
           /\ NumCalls <= 3
           /\ sleeps = WaitsBefore(NumCalls)
           /\ label = AnsweredLabel(LastCall.text)
    /\ (pc = "gen_returned" /\ NumCalls > 0 /\ LastCall.kind = "content"
            /\ RateLimitedBefore) =>
           /\ NumCalls <= 3
           /\ sleeps = WaitsBefore(NumCalls)
           /\ content = AnsweredContent(LastCall.text, trend_text, category)
    /\ (pc \in {"cat_returned", "gen_returned"}) =>
           \A i \in 1..NumCalls :
               api_calls[i].kind = "content" => i = NumCalls /\ RateLimitedBefore

\* the third call of categorize, after two rate-limited calls and waits of
\* 2 s and 4 s, answered 'Result'
C31_Witness ==
    /\ pc = "cat_returned"
    /\ NumCalls = 3
    /\ RateLimitedBefore
    /\ LastCall = [kind |-> "content", text |-> "Result"]
    /\ sleeps = <<2, 4>>
    /\ label = "Result"

(***************************************************************************)
(* Properties of the summary and of the external calls of a run            *)
(***************************************************************************)

\* the smaller of the two numbers
Min(a, b) == IF a < b THEN a ELSE b

\* the items of the add_row calls that returned True, in the order of the
\* calls
RECURSIVE SavedItems(_)
SavedItems(k) ==
    IF k > Len(events) THEN <<>>
    ELSE IF IsOkWrite(events[k]) THEN <<events[k].item>> \o SavedItems(k + 1)
    ELSE SavedItems(k + 1)

\* C32: when a run in which no collaborator call raised returns, its
\* summary has processed = relevant + skipped = min(BATCH_SIZE, number of
\* trends) and saved + errors = relevant, saved is the length of the
\* results list, and the entries of the list are, in order, the items whose
\* add_row returned True.
C32_SummaryCounters ==
    (Returned /\ Excepts = {}) =>
        /\ response.stats.processed = response.stats.relevant + response.stats.skipped
        /\ response.stats.processed = Min(BATCH_SIZE, Len(trends))
        /\ response.stats.saved + response.stats.errors = response.stats.relevant
        /\ response.stats.saved = Len(response.results)
        /\ Len(response.results) = Len(SavedItems(1))
        /\ \A j \in DOMAIN response.results :
               response.results[j].trend = trends[SavedItems(1)[j]]

\* a run over three of fifteen trends without an exception: one item was
\* skipped, one saved and one refused by the store
C32_Witness ==
    /\ Returned
    /\ Excepts = {}
    /\ Len(trends) = 15
    /\ response.stats = [processed |-> 3, relevant |-> 2, skipped |-> 1,
                         errors |-> 1, saved |-> 1, batch_size |-> 3]

\* the calls of categorize, or of generate_content, made for item i
CallsFor(step, i) == {k \in EventsWhere(step) : events[k].item = i}

\* the invocations of categorize and generate_content of the run so far
Invocations ==
    Cardinality(EventsWhere("categorize"))
        + Cardinality(EventsWhere("generate_content"))

\* C33: in a run, every invocation of categorize or generate_content makes
\* at most 3 external calls (the calls of an invocation are on record until
\* it is over); each of the at most BATCH_SIZE items is given to categorize
\* at most once and to generate_content at most once, and an item labelled
\* 'Not Relevant' is not given to generate_content; hence a run makes at
\* most 3 * 6 = 18 external calls, at most 3 of them for a skipped item.
C33_CallBound ==
    /\ [](NumCalls <= 3)
    /\ [][\/ Len(api_calls') >= Len(api_calls)
          \/ api_calls' = <<>> /\ pc' = "idle"]_vars
    /\ [](\A k \in DOMAIN events : events[k].item \in 1..BATCH_SIZE)
    /\ [](\A i \in 1..BATCH_SIZE :
             /\ Cardinality(CallsFor("categorize", i)) <= 1
             /\ Cardinality(CallsFor("generate_content", i)) <= 1)
    /\ [](3 * Invocations <= 18)
    /\ [][(run_pc = "classifying" /\ pc = "cat_returned" /\ label = "Not Relevant")
             => /\ CallsFor("generate_content", idx) = {}
                /\ events' = events
                /\ idx' = idx + 1]_vars

\* the third item is in its sixth invocation, which has made three calls
C33_Witness ==
    /\ run_pc = "generating"
    /\ idx = 3
    /\ Invocations = 6
    /\ NumCalls = 3
    /\ CallsAllFailed

(***************************************************************************)
(* Properties of reading back and of duplicates                            *)
(***************************************************************************)

\* what a get_all_data that reads without an error returns now
ReadBack == get_all_data(TRUE, csv_rows, google_sheet, sheet_rows, "ok")

\* C34 as stated: after an add_row that returned True, get_all_data holds a
\* record of the trend; after an update_status that returned True, the
\* records of the trend that get_all_data returns have the new status (and
\* there is one); whether the CSV write and the Sheets write succeeded or
\* failed.
C34_ReadsOwnWrites ==
    /\ (AddedRow(events) /\ events[1].ok) =>
           \E i \in DOMAIN ReadBack : ReadBack[i].trend = events[1].trend
    /\ (UpdatedStatus(events) /\ events[2].ok) =>
           /\ \E i \in DOMAIN ReadBack : ReadBack[i].trend = events[2].trend
           /\ \A i \in DOMAIN ReadBack :
                  ReadBack[i].trend = events[2].trend
                      => ReadBack[i].status = events[2].status

\* no two rows of the sequence have the same trend text
trend_once(rows) ==
    \A i, j \in DOMAIN rows : rows[i].trend = rows[j].trend => i = j

\* C35 as stated: with the store operations executed one at a time, starting
\* from an empty store, neither the CSV file nor the Google Sheet ever holds
\* two records with the same trend text.
C35_NoTwiceStored == trend_once(csv_rows) /\ trend_once(sheet_rows)

\* the two concurrent calls have returned
BothReturned ==
    csv_calls # <<>> /\ \A w \in DOMAIN csv_calls : csv_calls[w].pc = "returned"

\* C36 as stated: when two add_row calls, or an add_row and an update_status,
\* ran at the same time on the CSV file, then after both have returned the
\* file holds a record of every trend whose add_row returned True, a record
\* with the new status for every update_status that returned True, and no
\* trend twice, whatever the order of their reads and writes was.
C36_ConcurrentWritesKept ==
    BothReturned =>
        /\ \A k \in DOMAIN events :
               (events[k].step = "add_row" /\ events[k].ok)
                   => events[k].trend \in RowTrends(csv_rows)
        /\ \A k \in DOMAIN events :
               (events[k].step = "update_status" /\ events[k].ok)
                   => \E i \in DOMAIN csv_rows :
                          /\ csv_rows[i].trend = events[k].trend
                          /\ csv_rows[i].status = events[k].status
        /\ trend_once(csv_rows)

====
